---------------------------- MODULE Spec2Model ----------------------------
(***************************************************************************)
(* A model of the expression-to-curve pipeline of src/src/lib/mathUtils.ts *)
(*                                                                         *)
(* Texts are sequences of characters; a character is a one-element string. *)
(* The five alias characters the normalizer rewrites are not ASCII and are *)
(* written "<pi>", "<div>", "<times>", "<sqrt>", "<inf>" (U+03C0, U+00F7,  *)
(* U+00D7, U+221A, U+221E).                                                *)
(***************************************************************************)
EXTENDS Integers, Sequences, FiniteSets, TLC

(***************************************************************************)
(* Bounds of the model.                                                    *)
(***************************************************************************)
\* An input text is the concatenation of at most MaxTokens tokens of Tokens.
MaxTokens == 3

\* generatePoints is called with at most MaxExprs expressions ...
MaxExprs == 2

\* ... and a pointCount of at most MaxPoints.
MaxPoints == 2

\* The parametric and polar loops run for i = 0..MaxSteps; MaxSteps stands
\* for steps = 500 (mathUtils.ts:258, 276).
MaxSteps == 1

\* The grid has GridResolution cells on each axis; GridResolution stands for
\* the resolution 60 that generateFunctionData passes (mathUtils.ts:302).
GridResolution == 1

\* The stitcher is handed at most MaxSegments segments.
MaxSegments == 3

\* The resolution generateFunctionData passes to marchSquares, for both axes
\* and whatever the domain (mathUtils.ts:302).
ImplicitGridResolution == 60

VARIABLES
    \* ---- text pipeline (normalizeExpression, detectFunctionType) ----
    expr,        \* the raw expression text
    norm,        \* normalizeExpression(expr), once called
    renorm,      \* normalizeExpression(norm), once called
    fnType,      \* detectFunctionType(expr), once called ("none" before)
    tpc,         \* how far the calls on expr have got
    \* ---- one call of generatePoints or of generateFunctionData ----
    call,        \* which of the two functions is running
    spc,         \* where the call is
    expressions, \* generatePoints: the expressions argument
    pointCount,  \* generatePoints: the pointCount argument
    xDomain,     \* <<xMin, xMax>>
    yDomain,     \* generateFunctionData: <<yMin, yMax>>
    func,        \* generateFunctionData: the func argument
    explicitExprs, \* generatePoints: the filtered expressions
    compiledExprs, \* generatePoints: the compiled expressions
    data,        \* generatePoints: the rows pushed so far
    point,       \* generatePoints: the row being filled
    loopI,       \* the loop index (row, sample, grid column)
    loopJ,       \* marchSquares: the inner loop index (grid row)
    loopK,       \* generatePoints: position in compiledExprs of the forEach
    evaluated,   \* generatePoints: what the last compiled.evaluate produced
    ftype,       \* generateFunctionData: type
    code,        \* generateFunctionData: the compiled implicit expression
    points,      \* generateFunctionData: points
    grid,        \* marchSquares: grid
    segments,    \* marchSquares: segments
    lastPush,    \* marchSquares: the segments the last cell pushed
    retval,      \* what the call returned: "data", "curve", "null"; "threw"
                 \* when an exception left the function
    \* ---- history ----
    compileLog,  \* the texts handed to mathjs compile during the call
    lastSaddle,  \* the last cell of index 5 or 10 marched: its index, the
                 \* sign of v0*v2 - v1*v3 and the pairing pushed
    \* ---- the polyline stitcher (buildPolylinesFromSegments) ----
    stitchIn,    \* the segments handed to the stitcher
    stitchOut,   \* what the stitcher made of stitchIn
    stitchAgain, \* what the stitcher made of the segments of stitchOut
    stpc,        \* how far the calls of the stitcher have got
    \* ---- dragging a vertex of a geometry item (Graph handleMouseMove) ----
    geomText,    \* the item's expr
    geomBefore,  \* item.geometry: parseGeometry of the expr before the drag
    geomArg,     \* the geometry handed to formatGeometry
    dragIndex,   \* dragging.pointIndex, counted from 1
    dragCount,   \* the mouse moves handled so far
    \* ---- Graph: domain updates and the interaction state ----
    mounted,           \* the component is mounted
    wheelFlag,         \* interactionRefs.current.wheel
    panFlag,           \* interactionRefs.current.pan
    interactionActive, \* interactionActiveRef.current
    wheelTimer,        \* the timeout of wheelInteractionTimeoutRef is running
    panning,           \* the state panning is set (not null)
    renderPending,     \* a state change has not been rendered yet
    listening,         \* the window listeners of the last render are registered
    buttonDown,        \* the middle button is held
    pendingDomain,     \* pendingDomainRef.current
    frameRef,          \* frameRef.current is not null
    rafPending,        \* the animation frames requested and not yet fired
    frameScheduled,    \* the pair whose scheduling requested the frame
    lastScheduled,     \* the pair of the last scheduleDomainUpdate
    xUpdates,          \* what the last frame gave to onUpdateXDomain
    yUpdates,          \* what the last frame gave to onUpdateYDomain
    notified,          \* the last two values given to onInteractionChange
    lastCall,          \* the handler that ran last
    \* ---- App: the function list ----
    functions,         \* the value of the state functions at the last render
    queued,            \* the value the last setFunctions asked for
    intended,          \* the list with every call applied in turn
    callsQueued,       \* the calls made since the last render
    \* ---- the anchor snapper ----
    snapIn,            \* the polylines handed to the snapper
    anchors,           \* the anchors handed to the snapper
    snapOut,           \* the polylines the snapper returned
    snpc               \* how far the call of the snapper has got

textVars == <<expr, norm, renorm, fnType, tpc>>

sampleVars == <<call, spc, expressions, pointCount, xDomain, yDomain, func,
                explicitExprs, compiledExprs, data, point, loopI, loopJ, loopK, evaluated,
                ftype, code, points, grid, segments, lastPush, retval,
                compileLog, lastSaddle>>

stitchVars == <<stitchIn, stitchOut, stitchAgain, stpc>>

geomVars == <<geomText, geomBefore, geomArg, dragIndex, dragCount>>
\* the state of the components
graphVars == <<mounted, wheelFlag, panFlag, interactionActive, wheelTimer, panning,
               renderPending, listening, buttonDown, pendingDomain, frameRef,
               rafPending, frameScheduled, lastScheduled, xUpdates, yUpdates,
               notified, lastCall>>
appVars == <<functions, queued, intended, callsQueued>>
snapVars == <<snapIn, anchors, snapOut, snpc>>
uiVars == <<geomVars, graphVars, appVars, snapVars>>

vars == <<textVars, sampleVars, stitchVars, uiVars>>

(***************************************************************************)
(* Character-sequence helpers: the String methods the source uses.         *)
(***************************************************************************)
\* \s of a JavaScript regular expression and the characters trim() strips.
WS == {" ", "\n", "\t"}

Digits == {"0", "1", "2", "3", "4", "5", "6", "7", "8", "9"}

RECURSIVE SkipWs(_)
\* the text after its leading whitespace (what a leading \s* consumes)
SkipWs(s) ==
    IF s = <<>> THEN <<>>
    ELSE IF Head(s) \in WS THEN SkipWs(Tail(s)) ELSE s

RECURSIVE DropTrailingWs(_)
DropTrailingWs(s) ==
    IF s = <<>> THEN <<>>
    ELSE IF s[Len(s)] \in WS THEN DropTrailingWs(SubSeq(s, 1, Len(s) - 1)) ELSE s

\* String.prototype.trim
Trim(s) == DropTrailingWs(SkipWs(s))

\* String.prototype.includes for a single character
Includes(s, c) == \E i \in 1..Len(s) : s[i] = c

\* index of the first occurrence of c at or after position from, 0 if none
IndexOf(s, c, from) ==
    IF \E i \in from..Len(s) : s[i] = c
    THEN CHOOSE i \in from..Len(s) : s[i] = c /\ \A k \in from..(i - 1) : s[k] # c
    ELSE 0

RECURSIVE ReplaceFirst(_, _, _)
\* String.prototype.replace with a pattern that has no g flag
ReplaceFirst(s, c, rep) ==
    IF s = <<>> THEN <<>>
    ELSE IF Head(s) = c THEN rep \o Tail(s)
    ELSE <<Head(s)>> \o ReplaceFirst(Tail(s), c, rep)

RECURSIVE ReplaceAll(_, _, _)
\* String.prototype.replace(/c/g, rep)
ReplaceAll(s, c, rep) ==
    IF s = <<>> THEN <<>>
    ELSE IF Head(s) = c THEN rep \o ReplaceAll(Tail(s), c, rep)
    ELSE <<Head(s)>> \o ReplaceAll(Tail(s), c, rep)

RECURSIVE Split(_, _)
\* String.prototype.split(c): always at least one part, parts may be empty
Split(s, c) ==
    LET k == IndexOf(s, c, 1)
    IN  IF k = 0 THEN <<s>>
        ELSE <<SubSeq(s, 1, k - 1)>> \o Split(SubSeq(s, k + 1, Len(s)), c)

(***************************************************************************)
(* normalizeExpression, mathUtils.ts:21-48                                 *)
(***************************************************************************)
NullText == <<"n", "u", "l", "l">>

\* the replacements with line 28 left out
ReplaceAliasesNoSqrt(e) ==
    LET a1 == ReplaceAll(e,  "<pi>",    <<"p", "i">>)
        a2 == ReplaceAll(a1, "<div>",   <<"/">>)
        a3 == ReplaceAll(a2, "<times>", <<"*">>)
    IN  ReplaceAll(a3, "<inf>", <<"I", "n", "f", "i", "n", "i", "t", "y">>)

\* lines 25-29: the five global replacements, in the source's order
ReplaceAliases(e) ==
    LET a1 == ReplaceAll(e,  "<pi>",    <<"p", "i">>)
        a2 == ReplaceAll(a1, "<div>",   <<"/">>)
        a3 == ReplaceAll(a2, "<times>", <<"*">>)
        a4 == ReplaceAll(a3, "<sqrt>",  <<"s", "q", "r", "t">>)
    IN  ReplaceAll(a4, "<inf>", <<"I", "n", "f", "i", "n", "i", "t", "y">>)

\* line 41: `(${condition}) ? (${value}) : (${result})`
Ternary(condition, value, result) ==
    <<"(">> \o condition \o <<")", " ", "?", " ", "(">> \o value
            \o <<")", " ", ":", " ", "(">> \o result \o <<")">>

RECURSIVE PiecewiseFold(_, _, _)
\* lines 38-43: the loop from the last part to the first
PiecewiseFold(parts, i, result) ==
    IF i = 0 THEN result
    ELSE LET cv        == Split(parts[i], ":")
             condition == Trim(cv[1])
             hasValue  == Len(cv) >= 2
             value     == IF hasValue THEN Trim(cv[2]) ELSE <<>>
         IN  IF condition # <<>> /\ hasValue /\ value # <<>>
             THEN PiecewiseFold(parts, i - 1, Ternary(condition, value, result))
             ELSE PiecewiseFold(parts, i - 1, result)

\* line 32: normalized.trim().startsWith('{') && normalized.trim().endsWith('}')
IsPiecewise(n) ==
    LET t == Trim(n)
    IN  Len(t) >= 1 /\ t[1] = "{" /\ t[Len(t)] = "}"

normalizeExpression(e) ==
    LET n == ReplaceAliases(e)
    IN  IF IsPiecewise(n)
        THEN LET t       == Trim(n)
                 content == SubSeq(t, 2, Len(t) - 1)
                 parts   == Split(content, ",")
             IN  PiecewiseFold(parts, Len(parts), NullText)
        ELSE n

(***************************************************************************)
(* parseGeometry, mathUtils.ts:111-133                                     *)
(***************************************************************************)
AllDigits(t) == \A i \in 1..Len(t) : t[i] \in Digits

\* \d*\.?\d+
IsMantissa(m) ==
    LET dot == IndexOf(m, ".", 1)
    IN  IF dot = 0 THEN Len(m) >= 1 /\ AllDigits(m)
        ELSE /\ AllDigits(SubSeq(m, 1, dot - 1))
             /\ dot < Len(m)
             /\ AllDigits(SubSeq(m, dot + 1, Len(m)))

\* e[+-]?\d+ without its leading e
IsExponentTail(x) ==
    LET d == IF x # <<>> /\ Head(x) \in {"+", "-"} THEN Tail(x) ELSE x
    IN  Len(d) >= 1 /\ AllDigits(d)

\* -?\d*\.?\d+(?:e[+-]?\d+)? with the i flag, matched against the whole of t
IsNumberText(t) ==
    LET u  == IF t # <<>> /\ Head(t) = "-" THEN Tail(t) ELSE t
        e1 == IndexOf(u, "e", 1)
        e2 == IndexOf(u, "E", 1)
        ex == IF e1 = 0 THEN e2 ELSE IF e2 = 0 THEN e1 ELSE IF e1 < e2 THEN e1 ELSE e2
    IN  IF ex = 0 THEN IsMantissa(u)
        ELSE IsMantissa(SubSeq(u, 1, ex - 1)) /\ IsExponentTail(SubSeq(u, ex + 1, Len(u)))

\* No piece of pointRegex matches ',' or ')' except the literal ones, so a match
\* that starts at the '(' at position i runs to the first ')' after it and is
\* cut by the first ',' after it. PointMatchEnd is the position of that ')',
\* or 0 when pointRegex does not match at i.
PointMatchEnd(s, i) ==
    IF i > Len(s) \/ s[i] # "(" THEN 0
    ELSE LET close == IndexOf(s, ")", i + 1)
             comma == IndexOf(s, ",", i + 1)
         IN  IF close = 0 \/ comma = 0 \/ comma > close THEN 0
             ELSE IF /\ IsNumberText(Trim(SubSeq(s, i + 1, comma - 1)))
                     /\ IsNumberText(Trim(SubSeq(s, comma + 1, close - 1)))
                  THEN close ELSE 0

RECURSIVE PointMatches(_, _)
\* [...s.matchAll(pointRegex)] from position from on: the matches, left to
\* right and not overlapping, each with its two captured number texts
PointMatches(s, from) ==
    IF from > Len(s) THEN <<>>
    ELSE LET close == PointMatchEnd(s, from)
         IN  IF close = 0 THEN PointMatches(s, from + 1)
             ELSE LET comma == IndexOf(s, ",", from + 1)
                  IN  <<[x |-> Trim(SubSeq(s, from + 1, comma - 1)),
                         y |-> Trim(SubSeq(s, comma + 1, close - 1))]>>
                      \o PointMatches(s, close + 1)

\* The result null is the record of type "null" with no points.
parseGeometry(e) ==
    LET matches == PointMatches(normalizeExpression(e), 1)
    IN  IF Len(matches) = 0 THEN [type |-> "null", points |-> <<>>]
        ELSE IF Len(matches) = 1 THEN [type |-> "point", points |-> matches]
        ELSE [type |-> "polygon", points |-> matches]

(***************************************************************************)
(* detectFunctionType, mathUtils.ts:50-66                                  *)
(***************************************************************************)
FunctionKinds == {"geometry", "polar", "parametric", "implicit", "explicit"}

\* line 54: parseGeometry(normalized) is not null
RuleGeometry(n) == parseGeometry(n).type # "null"

\* line 57: /^\s*r\s*=/i
RulePolar(n) ==
    LET a == SkipWs(n)
    IN  /\ a # <<>>
        /\ Head(a) \in {"r", "R"}
        /\ LET b == SkipWs(Tail(a)) IN b # <<>> /\ Head(b) = "="

\* line 60: /^\s*\(.*,.*\)\s*$/ ; '.' matches no line terminator
RuleParametric(n) ==
    LET a == Trim(n)
    IN  /\ Len(a) >= 3
        /\ a[1] = "("
        /\ a[Len(a)] = ")"
        /\ Includes(SubSeq(a, 2, Len(a) - 1), ",")
        /\ ~Includes(SubSeq(a, 2, Len(a) - 1), "\n")

\* line 63: /^\s*(y|f\(x\))\s*=/i
StartsWithYOrFx(n) ==
    LET a == SkipWs(n)
        afterY  == IF a # <<>> /\ Head(a) \in {"y", "Y"} THEN SkipWs(Tail(a)) ELSE <<>>
        isFx    == /\ Len(a) >= 4
                   /\ a[1] \in {"f", "F"} /\ a[2] = "(" /\ a[3] \in {"x", "X"} /\ a[4] = ")"
        afterFx == IF isFx THEN SkipWs(SubSeq(a, 5, Len(a))) ELSE <<>>
    IN  \/ (afterY # <<>> /\ Head(afterY) = "=")
        \/ (afterFx # <<>> /\ Head(afterFx) = "=")

\* line 63
RuleImplicit(n) == Includes(n, "=") /\ ~StartsWithYOrFx(n)

\* a version whose last return is missing: the function falls off its end
detectFunctionTypeNoDefault(e) ==
    LET normalized == normalizeExpression(e)
    IN  IF RuleGeometry(normalized) THEN "geometry"
        ELSE IF RulePolar(normalized) THEN "polar"
        ELSE IF RuleParametric(normalized) THEN "parametric"
        ELSE IF RuleImplicit(normalized) THEN "implicit"
        ELSE "undefined"

\* a version that tests the implicit rule before the polar rule
detectFunctionTypeReordered(e) ==
    LET normalized == normalizeExpression(e)
    IN  IF RuleGeometry(normalized) THEN "geometry"
        ELSE IF RuleImplicit(normalized) THEN "implicit"
        ELSE IF RulePolar(normalized) THEN "polar"
        ELSE IF RuleParametric(normalized) THEN "parametric"
        ELSE "explicit"

\* a version whose implicit rule lacks the test for a leading y = or f(x) =
detectFunctionTypeNoYTest(e) ==
    LET normalized == normalizeExpression(e)
    IN  IF RuleGeometry(normalized) THEN "geometry"
        ELSE IF RulePolar(normalized) THEN "polar"
        ELSE IF RuleParametric(normalized) THEN "parametric"
        ELSE IF Includes(normalized, "=") THEN "implicit"
        ELSE "explicit"

detectFunctionType(e) ==
    LET normalized == normalizeExpression(e)
    IN  IF RuleGeometry(normalized) THEN "geometry"
        ELSE IF RulePolar(normalized) THEN "polar"
        ELSE IF RuleParametric(normalized) THEN "parametric"
        ELSE IF RuleImplicit(normalized) THEN "implicit"
        ELSE "explicit"

(***************************************************************************)
(* JavaScript numbers.  A number is finite (an exact fraction n/d, d > 0,  *)
(* in lowest terms), NaN, +Infinity or -Infinity; the operators follow     *)
(* IEEE 754 on the special values.  The values the model computes with     *)
(* have small denominators, so finite arithmetic is exact.                 *)
(***************************************************************************)
Abs(a) == IF a < 0 THEN -a ELSE a

RECURSIVE GCD(_, _)
GCD(a, b) == IF b = 0 THEN a ELSE GCD(b, a % b)

Sign(a) == IF a > 0 THEN 1 ELSE IF a < 0 THEN -1 ELSE 0

\* the fraction n/d, d # 0, in lowest terms with a positive denominator
Frac(n, d) ==
    LET g == GCD(Abs(n), Abs(d))
    IN  [k |-> "fin", n |-> Sign(d) * (n \div g), d |-> Abs(d) \div g]

Num(n)   == [k |-> "fin", n |-> n, d |-> 1]
NaN      == [k |-> "nan", n |-> 0, d |-> 1]
Infinity == [k |-> "inf", n |-> 1, d |-> 1]
NegInfinity == [k |-> "inf", n |-> -1, d |-> 1]

InfOfSign(s) == IF s > 0 THEN Infinity ELSE NegInfinity

\* isFinite(a) for a number a
IsFinite(a) == a.k = "fin"

FNeg(a) == [a EXCEPT !.n = -a.n]

FAdd(a, b) ==
    IF a.k = "nan" \/ b.k = "nan" THEN NaN
    ELSE IF a.k = "inf" /\ b.k = "inf" THEN (IF a.n = b.n THEN a ELSE NaN)
    ELSE IF a.k = "inf" THEN a
    ELSE IF b.k = "inf" THEN b
    ELSE Frac(a.n * b.d + b.n * a.d, a.d * b.d)

FSub(a, b) == FAdd(a, FNeg(b))

FMul(a, b) ==
    IF a.k = "nan" \/ b.k = "nan" THEN NaN
    ELSE IF a.k = "inf" \/ b.k = "inf"
         THEN (IF a.n = 0 \/ b.n = 0 THEN NaN ELSE InfOfSign(Sign(a.n) * Sign(b.n)))
    ELSE Frac(a.n * b.n, a.d * b.d)

\* The sign of a zero is not kept: x / 0 is taken with the zero positive,
\* which is the only division by zero the modelled code performs.
FDiv(a, b) ==
    IF a.k = "nan" \/ b.k = "nan" THEN NaN
    ELSE IF a.k = "inf" /\ b.k = "inf" THEN NaN
    ELSE IF a.k = "inf" THEN InfOfSign(a.n * (IF b.n < 0 THEN -1 ELSE 1))
    ELSE IF b.k = "inf" THEN Num(0)
    ELSE IF b.n = 0 THEN (IF a.n = 0 THEN NaN ELSE InfOfSign(a.n))
    ELSE Frac(a.n * b.d, a.d * b.n)

FAbs(a) == IF a.k = "nan" THEN NaN ELSE [a EXCEPT !.n = Abs(a.n)]

\* a > 0 ; false for NaN
GtZero(a) == a.k # "nan" /\ a.n > 0

\* a < 1e-10 for a >= 0: the model's fractions have denominators far below
\* 1e10, so a nonnegative one is below 1e-10 exactly when it is 0
LtTiny(a) == a.k = "fin" /\ a.n = 0

\* a <= b for finite a, b
FLeq(a, b) == a.n * b.d <= b.n * a.d

(***************************************************************************)
(* marchSquares, mathUtils.ts:168-228: the per-cell computation            *)
(***************************************************************************)
\* lines 204-207
lerp(v1, v2, p1, p2) ==
    IF LtTiny(FAbs(FSub(v2, v1))) THEN p1
    ELSE FAdd(p1, FMul(FSub(p2, p1), FDiv(FNeg(v1), FSub(v2, v1))))

\* line 201
cellIndex(v0, v1, v2, v3) ==
      (IF GtZero(v0) THEN 1 ELSE 0) + (IF GtZero(v1) THEN 2 ELSE 0)
    + (IF GtZero(v2) THEN 4 ELSE 0) + (IF GtZero(v3) THEN 8 ELSE 0)

\* lines 209-212: the four edge points of the cell whose corner (i, j) is at
\* (x, y); v0..v3 are the values at (i,j), (i+1,j), (i+1,j+1), (i,j+1)
EdgeTop(v0, v1, x, y, dx)        == [x |-> lerp(v0, v1, x, FAdd(x, dx)), y |-> y]
EdgeRight(v1, v2, x, y, dx, dy)  == [x |-> FAdd(x, dx), y |-> lerp(v1, v2, y, FAdd(y, dy))]
EdgeBottom(v3, v2, x, y, dx, dy) == [x |-> lerp(v3, v2, x, FAdd(x, dx)), y |-> FAdd(y, dy)]
EdgeLeft(v0, v3, x, y, dy)       == [x |-> x, y |-> lerp(v0, v3, y, FAdd(y, dy))]

\* the switch without its line 221
CellPairingNoCase7(index) ==
    CASE index \in {1, 14} -> << <<"left", "bottom">> >>
      [] index \in {2, 13} -> << <<"bottom", "right">> >>
      [] index \in {3, 12} -> << <<"left", "right">> >>
      [] index \in {4, 11} -> << <<"top", "right">> >>
      [] index = 5         -> << <<"left", "top">>, <<"bottom", "right">> >>
      [] index \in {6, 9}  -> << <<"top", "bottom">> >>
      [] index = 10        -> << <<"left", "bottom">>, <<"top", "right">> >>
      [] OTHER             -> << >>

\* lines 214-223: the switch, as the names of the edge points each pushed
\* segment joins, in push order
CellPairing(index) ==
    CASE index \in {1, 14} -> << <<"left", "bottom">> >>
      [] index \in {2, 13} -> << <<"bottom", "right">> >>
      [] index \in {3, 12} -> << <<"left", "right">> >>
      [] index \in {4, 11} -> << <<"top", "right">> >>
      [] index = 5         -> << <<"left", "top">>, <<"bottom", "right">> >>
      [] index \in {6, 9}  -> << <<"top", "bottom">> >>
      [] index \in {7, 8}  -> << <<"left", "top">> >>
      [] index = 10        -> << <<"left", "bottom">>, <<"top", "right">> >>
      [] OTHER             -> << >>

\* the point a name of lines 209-212 stands for
EdgePoint(name, v0, v1, v2, v3, x, y, dx, dy) ==
    CASE name = "top"    -> EdgeTop(v0, v1, x, y, dx)
      [] name = "right"  -> EdgeRight(v1, v2, x, y, dx, dy)
      [] name = "bottom" -> EdgeBottom(v3, v2, x, y, dx, dy)
      [] OTHER           -> EdgeLeft(v0, v3, x, y, dy)

\* lines 201-223: the segments pushed for one cell, in push order
CellSegments(v0, v1, v2, v3, x, y, dx, dy) ==
    LET pairing == CellPairing(cellIndex(v0, v1, v2, v3))
    IN  [s \in 1..Len(pairing) |->
            << EdgePoint(pairing[s][1], v0, v1, v2, v3, x, y, dx, dy),
               EdgePoint(pairing[s][2], v0, v1, v2, v3, x, y, dx, dy) >>]

(***************************************************************************)
(* The evaluator of an implicit expression, as marchSquares sees it        *)
(* (mathUtils.ts:295-299): code.evaluate({x, y}) and, when that throws,    *)
(* NaN.  The compiled expression is one of the functions                   *)
(*     g(x, y) = a*x*y + b*x + c*y + d                                     *)
(* made undefined at no or at one lattice point: there evaluation throws   *)
(* or yields NaN, +Infinity or -Infinity.                                  *)
(***************************************************************************)
HoleKinds == {"throw", "nan", "inf", "ninf"}

\* code.evaluate({x, y}) of the compiled expression ev, where it returns a
\* finite number
ImplicitValue(ev, px, py) ==
    FAdd(FAdd(FMul(Num(ev.a), FMul(px, py)), FMul(Num(ev.b), px)),
         FAdd(FMul(Num(ev.c), py), Num(ev.d)))

\* the arrow function of lines 295-299, at lattice point (i, j) = (px, py)
ImplicitF(ev, px, py, i, j) ==
    IF ev.hole # "none" /\ ev.hi = i /\ ev.hj = j
    THEN CASE ev.hole = "throw" -> NaN          \* catch { return NaN; }
           [] ev.hole = "nan"   -> NaN
           [] ev.hole = "inf"   -> Infinity
           [] OTHER             -> NegInfinity
    ELSE ImplicitValue(ev, px, py)

(***************************************************************************)
(* The values compiled.evaluate(scope) can produce.  The evaluator is the  *)
(* external mathjs runtime: which value an expression has at a sample is   *)
(* not decided by this code, so every evaluation may produce any of them.  *)
(***************************************************************************)
\* a number
NumberV(v) == [t |-> "number", num |-> v, last |-> "-"]
\* a value that is no number: a boolean, a string, a Complex, null, undefined
OtherV == [t |-> "other", num |-> NaN, last |-> "-"]
\* a mathjs ResultSet whose entries end with a number, end with a value that
\* is no number, or are empty
ResultSetV(last, v) == [t |-> "resultset", num |-> v, last |-> last]
\* evaluate throws
Throw == [t |-> "throw", num |-> NaN, last |-> "-"]

Outcomes ==
    { NumberV(Num(0)), NumberV(Num(1)), NumberV(NaN), NumberV(Infinity),
      NumberV(NegInfinity), OtherV, ResultSetV("number", Num(1)),
      ResultSetV("other", NaN), ResultSetV("empty", NaN), Throw }

\* The parametric and polar loops store or multiply the value without looking
\* at its type: a number, NaN and a throw cover their paths.
CurveOutcomes == { NumberV(Num(0)), NumberV(Num(1)), NumberV(NaN), Throw }

(***************************************************************************)
(* generatePoints, mathUtils.ts:316-370                                    *)
(***************************************************************************)
NullCell   == [k |-> "null", n |-> 0, d |-> 1]
\* the row has no property for the id
AbsentCell == [k |-> "absent", n |-> 0, d |-> 1]

\* a filter that leaves out the test of the kind on line 329
IsSampledAnyKind(e) ==
    /\ e.visible
    /\ Trim(e.expr) # <<>>

\* lines 327-330
IsSampledExplicit(e) ==
    /\ e.visible
    /\ Trim(e.expr) # <<>>
    /\ detectFunctionType(e.expr) = "explicit"
    /\ parseGeometry(e.expr).type = "null"

\* lines 333-342 without the try/catch: the first failure leaves the function
CompileAllUncaught(exprs, ok) ==
    [ threw    |-> \E n \in 1..Len(exprs) : ~ok[n],
      compiled |-> [n \in 1..Len(exprs) |->
                       [id |-> exprs[n].id, text |-> normalizeExpression(exprs[n].expr)]] ]

RECURSIVE KeepCompiled(_, _, _)
KeepCompiled(exprs, ok, n) ==
    IF n > Len(exprs) THEN <<>>
    ELSE (IF ok[n]
          THEN <<[id |-> exprs[n].id, text |-> normalizeExpression(exprs[n].expr)]>>
          ELSE <<>>) \o KeepCompiled(exprs, ok, n + 1)

\* lines 333-342: ok[n] says whether mathjs compile accepts expression n; a
\* failure is caught, mapped to null and filtered out
CompileAll(exprs, ok) ==
    [ threw |-> FALSE, compiled |-> KeepCompiled(exprs, ok, 1) ]

\* lines 352-354: a ResultSet is replaced by its last entry
UnwrapResultSet(o) ==
    IF o.t = "resultset"
    THEN (IF o.last = "number" THEN NumberV(o.num) ELSE OtherV)
    ELSE o

\* a version of lines 349-363 that only tests typeof y === 'number'
RecordSampleNoFiniteTest(o) ==
    IF o.t = "throw" THEN NullCell
    ELSE LET y == UnwrapResultSet(o)
         IN  IF y.t = "number" THEN y.num ELSE NullCell

\* lines 349-363: the cell recorded for an evaluation outcome
RecordSample(o) ==
    IF o.t = "throw" THEN NullCell
    ELSE LET y == UnwrapResultSet(o)
         IN  IF y.t = "number" /\ IsFinite(y.num) THEN y.num ELSE NullCell

\* a version whose step divides by the count instead of the count less one
SampleXByCount(xMin, xMax, count, row) ==
    LET step == FDiv(Num(xMax - xMin), Num(count))
    IN  FAdd(Num(xMin), FMul(Num(row), step))

\* lines 323 and 345
SampleX(xMin, xMax, count, row) ==
    LET step == FDiv(Num(xMax - xMin), Num(count - 1))
    IN  FAdd(Num(xMin), FMul(Num(row), step))

(***************************************************************************)
(* generateFunctionData, mathUtils.ts:230-314                              *)
(***************************************************************************)
\* line 250: normalized.slice(1, -1).split(',')
ParametricParts(normalized) ==
    Split(SubSeq(normalized, 2, Len(normalized) - 1), ",")

\* line 271: normalized.replace(/^\s*r\s*=\s*/i, '') for a text the polar rule
\* matched
PolarRhs(normalized) ==
    LET afterR  == SkipWs(Tail(SkipWs(normalized)))
    IN  SkipWs(Tail(afterR))

\* lines 290-291: `${lhs} - (${rhs})` of normalized.split('=')
ImplicitExpr(normalized) ==
    LET sides == Split(normalized, "=")
    IN  sides[1] \o <<" ", "-", " ", "(">> \o sides[2] \o <<")">>

\* line 264: the outcomes ox of xCode.evaluate and oy of yCode.evaluate give
\* a point, unless one of them throws (yCode is not evaluated when xCode throws)
ParametricPoint(ox, oy) ==
    [ threw |-> ox.t = "throw" \/ oy.t = "throw",
      at    |-> IF ox.t = "throw" THEN ox ELSE oy,
      point |-> [x |-> ox, y |-> oy] ]

\* lines 282-283: r * Math.cos(theta), r * Math.sin(theta) at sample n, kept
\* as the products they are
PolarPoint(r, n) ==
    [ threw |-> r.t = "throw",
      at    |-> r,
      point |-> [x |-> [r |-> r, times |-> "cos", sample |-> n],
                 y |-> [r |-> r, times |-> "sin", sample |-> n]] ]

\* The compiled implicit expressions of the model.
ImplicitEvaluators ==
    { [a |-> ca, b |-> cb, c |-> cc, d |-> cd, hole |-> "none", hi |-> 0, hj |-> 0] :
        ca \in -2..2, cb \in -1..1, cc \in -1..1, cd \in -1..1 }
    \cup
    { [a |-> ca, b |-> cb, c |-> cc, d |-> cd, hole |-> h, hi |-> p, hj |-> q] :
        ca \in -2..2, cb \in -1..1, cc \in -1..1, cd \in -1..1,
        h \in HoleKinds, p \in 0..GridResolution, q \in 0..GridResolution }

NoEvaluator == [a |-> 0, b |-> 0, c |-> 0, d |-> 0, hole |-> "none", hi |-> 0, hj |-> 0]

\* lines 175-176 and 183, 185: the lattice coordinates
GridDx(dom, resolution) == FDiv(Num(dom[2] - dom[1]), Num(resolution))
GridCoord(dom, resolution, n) == FAdd(Num(dom[1]), FMul(Num(n), GridDx(dom, resolution)))

\* lines 181-188
EvaluateGrid(ev, xd, yd, resolution) ==
    [p \in (0..resolution) \X (0..resolution) |->
        ImplicitF(ev, GridCoord(xd, resolution, p[1]), GridCoord(yd, resolution, p[2]),
                  p[1], p[2])]

\* lines 193-223 for the cell (ci, cj)
MarchCell(g, xd, yd, resolution, ci, cj) ==
    CellSegments(g[<<ci, cj>>], g[<<ci + 1, cj>>], g[<<ci + 1, cj + 1>>], g[<<ci, cj + 1>>],
                 GridCoord(xd, resolution, ci), GridCoord(yd, resolution, cj),
                 GridDx(xd, resolution), GridDx(yd, resolution))

\* the index of cell (ci, cj), line 201
GridCellIndex(g, ci, cj) ==
    cellIndex(g[<<ci, cj>>], g[<<ci + 1, cj>>], g[<<ci + 1, cj + 1>>], g[<<ci, cj + 1>>])

\* the sign of v0*v2 - v1*v3 of cell (ci, cj)
DeciderSign(g, ci, cj) ==
    LET dd == FSub(FMul(g[<<ci, cj>>], g[<<ci + 1, cj + 1>>]),
                   FMul(g[<<ci + 1, cj>>], g[<<ci, cj + 1>>]))
    IN  IF dd.k = "nan" THEN 0 ELSE Sign(dd.n)

(***************************************************************************)
(* buildPolylinesFromSegments, the polyline stitcher that Graph.tsx:16     *)
(* imports and Graph.tsx:81 calls.  Its text is not in mathUtils.ts; it is *)
(* modelled from section 4.7 of the specification.  Coordinates are whole  *)
(* multiples of 1e-9, so the quantized key round(v * 1e8) of a coordinate  *)
(* n is n/10 rounded to the nearest whole number, halves upwards.  Where   *)
(* the specification leaves the order open, the segments are tried in the  *)
(* order of the input, and the tail of a polyline is extended until it     *)
(* stops before its head is.                                               *)
(***************************************************************************)
QKey(p) == <<(p.x + 5) \div 10, (p.y + 5) \div 10>>

SegTouches(seg, key) == QKey(seg[1]) = key \/ QKey(seg[2]) = key

\* the first unused segment that touches key, 0 if none
FirstUnusedAt(segs, used, key) ==
    LET cand == {k \in 1..Len(segs) : ~used[k] /\ SegTouches(segs[k], key)}
    IN  IF cand = {} THEN 0 ELSE CHOOSE k \in cand : \A m \in cand : k <= m

\* the endpoint of seg away from key
FarEndpoint(seg, key) == IF QKey(seg[1]) = key THEN seg[2] ELSE seg[1]

\* segment k is consumed: marked used and counted
Consume(w, k) ==
    [w EXCEPT !.used[k] = TRUE, !.uses[k] = @ + 1]

\* an extension that does not mark the segment it consumes
ExtendTailNoMark(segs, w, guard) ==
    LET key == QKey(w.line[Len(w.line)])
        k   == FirstUnusedAt(segs, w.used, key)
    IN  IF k = 0 THEN w
        ELSE [w EXCEPT !.uses[k] = @ + 1,
                       !.line = Append(@, FarEndpoint(segs[k], key)),
                       !.steps = IF guard + 1 > @ THEN guard + 1 ELSE @]

\* the tail extended by one segment: the first unused segment at the key of
\* the last point is consumed and its far endpoint appended
ExtendTail(segs, w, guard) ==
    LET key == QKey(w.line[Len(w.line)])
        k   == FirstUnusedAt(segs, w.used, key)
    IN  IF k = 0 THEN w
        ELSE [Consume(w, k) EXCEPT !.line = Append(@, FarEndpoint(segs[k], key)),
                                   !.steps = IF guard + 1 > @ THEN guard + 1 ELSE @]

\* the head extended by one segment
ExtendHead(segs, w, guard) ==
    LET key == QKey(w.line[1])
        k   == FirstUnusedAt(segs, w.used, key)
    IN  IF k = 0 THEN w
        ELSE [Consume(w, k) EXCEPT !.line = <<FarEndpoint(segs[k], key)>> \o @,
                                   !.steps = IF guard + 1 > @ THEN guard + 1 ELSE @]

RECURSIVE TailLoopOnce(_, _, _)
\* a tail loop that stops after its first extension
TailLoopOnce(segs, w, guard) ==
    IF guard >= 1 THEN w
    ELSE LET e == ExtendTail(segs, w, guard)
         IN  IF e.line = w.line THEN w ELSE TailLoopOnce(segs, e, guard + 1)

RECURSIVE TailLoop(_, _, _)
\* extend the tail until no extension is found or the guard limit
\* (segment count + 1) is reached
TailLoop(segs, w, guard) ==
    IF guard >= Len(segs) + 1 THEN w
    ELSE LET e == ExtendTail(segs, w, guard)
         IN  IF e.line = w.line THEN w ELSE TailLoop(segs, e, guard + 1)

RECURSIVE HeadLoop(_, _, _)
\* the same at the head
HeadLoop(segs, w, guard) ==
    IF guard >= Len(segs) + 1 THEN w
    ELSE LET e == ExtendHead(segs, w, guard)
         IN  IF e.line = w.line THEN w ELSE HeadLoop(segs, e, guard + 1)

RECURSIVE SeedLoop(_, _, _)
\* pick each unused segment in turn as the seed of a new polyline
SeedLoop(segs, i, st) ==
    IF i > Len(segs) THEN st
    ELSE IF st.used[i] THEN SeedLoop(segs, i + 1, st)
    ELSE LET seeded == Consume([line |-> segs[i], used |-> st.used, uses |-> st.uses,
                                steps |-> st.steps], i)
             grown  == HeadLoop(segs, TailLoop(segs, seeded, 0), 0)
         IN  SeedLoop(segs, i + 1,
                      [polylines |-> Append(st.polylines, grown.line),
                       used      |-> grown.used,
                       uses      |-> grown.uses,
                       steps     |-> grown.steps])

\* One run of the stitcher: the polylines, with what the run did: which
\* segments are marked used, how often each was consumed, and the largest
\* number of steps an extension loop took.
StitchRun(segs) ==
    SeedLoop(segs, 1, [polylines |-> << >>,
                       used      |-> [k \in 1..Len(segs) |-> FALSE],
                       uses      |-> [k \in 1..Len(segs) |-> 0],
                       steps     |-> 0])

buildPolylinesFromSegments(segs) == StitchRun(segs).polylines

RECURSIVE PointPairs(_)
\* a polyline as its consecutive point pairs
PointPairs(line) ==
    IF Len(line) < 2 THEN << >>
    ELSE << <<line[1], line[2]>> >> \o PointPairs(Tail(line))

RECURSIVE SegmentsOf(_)
\* the polylines as one segment list
SegmentsOf(lines) ==
    IF lines = << >> THEN << >>
    ELSE PointPairs(Head(lines)) \o SegmentsOf(Tail(lines))

NoRun == [polylines |-> << >>, used |-> << >>, uses |-> << >>, steps |-> 0]

\* no geometry: parseGeometry returned null, or nothing was parsed yet
NoGeometry == [type |-> "null", points |-> <<>>]

GeomIdle ==
    /\ geomText = <<>>
    /\ geomBefore = NoGeometry
    /\ geomArg = NoGeometry
    /\ dragIndex = 0
    /\ dragCount = 0

\* pendingDomainRef.current is null
NoDomain == [x |-> 0, y |-> 0]

\* the refs and state of Graph as lines 149-165 create them
GraphRefsFresh ==
    /\ wheelFlag = FALSE
    /\ panFlag = FALSE
    /\ interactionActive = FALSE
    /\ wheelTimer = FALSE
    /\ panning = FALSE
    /\ renderPending = FALSE
    /\ listening = FALSE
    /\ buttonDown = FALSE
    /\ pendingDomain = NoDomain
    /\ frameRef = FALSE
    /\ rafPending = 0
    /\ frameScheduled = NoDomain
    /\ lastScheduled = NoDomain
    /\ xUpdates = <<>>
    /\ yUpdates = <<>>
    /\ notified = <<>>
    /\ lastCall = "none"

GraphIdle == mounted = FALSE /\ GraphRefsFresh

AppIdle ==
    /\ functions = <<>>
    /\ queued = <<>>
    /\ intended = <<>>
    /\ callsQueued = 0

\* the snapper is not running
SnapIdle ==
    /\ snapIn = <<>>
    /\ anchors = <<>>
    /\ snapOut = <<>>
    /\ snpc = "off"

\* the components are not mounted
UiIdle == GeomIdle /\ GraphIdle /\ AppIdle /\ SnapIdle

\* the stitcher is not running
StitchIdle ==
    /\ stitchIn = << >>
    /\ stitchOut = NoRun
    /\ stitchAgain = NoRun
    /\ stpc = "off"

(***************************************************************************)
(* One call of generatePoints or of generateFunctionData as a state        *)
(* machine.  mathjs compile is external: whether it accepts a text is not  *)
(* decided by this code, so each compile may succeed or throw.             *)
(***************************************************************************)
ExprPool ==
    { <<"x">>,
      <<" ">>,
      <<"r", "=", "x">>,
      <<"(", "x", ",", "x", ")">>,
      <<"x", "=", "y">>,
      <<"(", "1", ",", "2", ")">>,
      <<"A", "=", "2", "\n", "x">> }

\* the texts generateFunctionData is called with: those above, a pair whose
\* first component is a call with two arguments, and a pair after a blank
FunctionPool ==
    ExprPool \cup { <<"(", "m", "(", "x", ",", "x", ")", ",", "x", ")">>,
                    <<" ", "(", "x", ",", "x", ")">> }

\* the expression lists: ids are the positions, so they are distinct
ExpressionLists ==
    UNION { { [n \in 1..len |-> [id |-> n, expr |-> l[n][1], visible |-> l[n][2]]] :
                l \in [1..len -> ExprPool \X BOOLEAN] } : len \in 0..MaxExprs }

Functions == { [id |-> 1, expr |-> e, visible |-> v] : e \in FunctionPool, v \in BOOLEAN }

Domains == { <<-1, 1>>, <<0, 2>> }

NoSaddle == [index |-> 0, dsign |-> 0, pairing |-> << >>]
NoPoint  == [x |-> NaN, cols |-> << >>]
NoFunc   == [id |-> 0, expr |-> << >>, visible |-> FALSE]

\* the locals of a call before it starts
LocalsReset ==
    /\ explicitExprs = << >>
    /\ compiledExprs = << >>
    /\ data = << >>
    /\ point = NoPoint
    /\ loopI = 0
    /\ loopJ = 0
    /\ loopK = 0
    /\ evaluated = OtherV
    /\ ftype = "none"
    /\ code = NoEvaluator
    /\ points = << >>
    /\ grid = << >>
    /\ segments = << >>
    /\ lastPush = << >>
    /\ retval = "none"
    /\ compileLog = << >>

TextIdle ==
    /\ expr = << >>
    /\ norm = << >>
    /\ renorm = << >>
    /\ fnType = "none"
    /\ tpc = "off"

SampleInit ==
    /\ TextIdle
    /\ StitchIdle
    /\ UiIdle
    /\ LocalsReset
    /\ lastSaddle = NoSaddle
    /\ \/ /\ call = "generatePoints"
          /\ spc = "gp_filter"
          /\ expressions \in ExpressionLists
          /\ pointCount \in 1..MaxPoints
          /\ xDomain \in Domains
          /\ yDomain = xDomain
          /\ func = NoFunc
       \/ /\ call = "generateFunctionData"
          /\ spc = "gfd_start"
          /\ func \in Functions
          /\ xDomain \in Domains
          /\ yDomain = xDomain
          /\ expressions = << >>
          /\ pointCount = 0

\* ---------------------------------------------------------------- generatePoints
\* lines 327-330
GP_Filter ==
    /\ spc = "gp_filter"
    /\ explicitExprs' = SelectSeq(expressions, IsSampledExplicit)
    /\ spc' = "gp_compile"
    /\ UNCHANGED <<textVars, stitchVars, uiVars, call, expressions, pointCount, xDomain, yDomain, func,
                   compiledExprs, data, point, loopI, loopJ, loopK, evaluated, ftype,
                   code, points, grid, segments, lastPush, retval, compileLog,
                   lastSaddle>>

\* lines 333-342
GP_Compile ==
    /\ spc = "gp_compile"
    /\ \E ok \in [1..Len(explicitExprs) -> BOOLEAN] :
         LET r == CompileAll(explicitExprs, ok)
         IN  /\ compiledExprs' = r.compiled
             /\ compileLog' = [n \in 1..Len(explicitExprs) |->
                                  normalizeExpression(explicitExprs[n].expr)]
             /\ IF r.threw
                THEN retval' = "threw" /\ spc' = "returned"
                ELSE retval' = retval /\ spc' = "gp_row"
    /\ loopI' = 0
    /\ UNCHANGED <<textVars, stitchVars, uiVars, call, expressions, pointCount, xDomain, yDomain, func,
                   explicitExprs, data, point, loopJ, loopK, evaluated, ftype,
                   code, points, grid, segments, lastPush, lastSaddle>>

\* lines 344-346: a row starts
GP_BeginRow ==
    /\ spc = "gp_row"
    /\ loopI < pointCount
    /\ point' = [x    |-> SampleX(xDomain[1], xDomain[2], pointCount, loopI),
                 cols |-> [n \in 1..Len(expressions) |-> AbsentCell]]
    /\ loopK' = 1
    /\ spc' = "gp_cols"
    /\ UNCHANGED <<textVars, stitchVars, uiVars, call, expressions, pointCount, xDomain, yDomain, func,
                   explicitExprs, compiledExprs, data, loopI, loopJ, evaluated, ftype,
                   code, points, grid, segments, lastPush, retval, compileLog,
                   lastSaddle>>

\* lines 348-364: one callback of the forEach
GP_Sample ==
    /\ spc = "gp_cols"
    /\ loopK <= Len(compiledExprs)
    /\ \E o \in Outcomes :
         /\ evaluated' = o
         /\ point' = [point EXCEPT !.cols[compiledExprs[loopK].id] = RecordSample(o)]
    /\ loopK' = loopK + 1
    /\ UNCHANGED <<textVars, stitchVars, uiVars, call, spc, expressions, pointCount, xDomain, yDomain, func,
                   explicitExprs, compiledExprs, data, loopI, loopJ, ftype,
                   code, points, grid, segments, lastPush, retval, compileLog,
                   lastSaddle>>

\* line 366
GP_PushRow ==
    /\ spc = "gp_cols"
    /\ loopK > Len(compiledExprs)
    /\ data' = Append(data, point)
    /\ loopI' = loopI + 1
    /\ spc' = "gp_row"
    /\ UNCHANGED <<textVars, stitchVars, uiVars, call, expressions, pointCount, xDomain, yDomain, func,
                   explicitExprs, compiledExprs, point, loopJ, loopK, evaluated, ftype,
                   code, points, grid, segments, lastPush, retval, compileLog,
                   lastSaddle>>

\* line 369
GP_Return ==
    /\ spc = "gp_row"
    /\ loopI >= pointCount
    /\ retval' = "data"
    /\ spc' = "returned"
    /\ UNCHANGED <<textVars, stitchVars, uiVars, call, expressions, pointCount, xDomain, yDomain, func,
                   explicitExprs, compiledExprs, data, point, loopI, loopJ, loopK,
                   evaluated, ftype, code, points, grid, segments, lastPush,
                   compileLog, lastSaddle>>

\* ---------------------------------------------------------- generateFunctionData
gfdFrame == <<textVars, stitchVars, uiVars, call, expressions, pointCount, xDomain, yDomain, func,
              explicitExprs, compiledExprs, data, point, loopK>>

\* lines 236-239
GFD_Start ==
    /\ spc = "gfd_start"
    /\ IF ~func.visible \/ Trim(func.expr) = << >>
       THEN retval' = "null" /\ spc' = "returned" /\ ftype' = ftype
       ELSE retval' = retval /\ spc' = "gfd_dispatch"
            /\ ftype' = detectFunctionType(func.expr)
    /\ UNCHANGED <<gfdFrame, loopI, loopJ, evaluated, code, points, grid, segments,
                   lastPush, compileLog, lastSaddle>>

\* lines 242-246
GFD_Explicit ==
    /\ spc = "gfd_dispatch"
    /\ ftype = "explicit"
    /\ points' = << >>
    /\ retval' = "curve"
    /\ spc' = "returned"
    /\ UNCHANGED <<gfdFrame, loopI, loopJ, evaluated, ftype, code, grid, segments,
                   lastPush, compileLog, lastSaddle>>

\* line 313: no branch of the try block takes the type geometry
GFD_Geometry ==
    /\ spc = "gfd_dispatch"
    /\ ftype = "geometry"
    /\ retval' = "null"
    /\ spc' = "returned"
    /\ UNCHANGED <<gfdFrame, loopI, loopJ, evaluated, ftype, code, points, grid,
                   segments, lastPush, compileLog, lastSaddle>>

\* lines 248-259; a compile that throws is caught at line 308
GFD_ParametricCompile ==
    /\ spc = "gfd_dispatch"
    /\ ftype = "parametric"
    /\ LET parts == ParametricParts(normalizeExpression(func.expr))
       IN  IF Len(parts) # 2
           THEN retval' = "null" /\ spc' = "returned" /\ compileLog' = compileLog
           ELSE \E okx \in BOOLEAN, oky \in BOOLEAN :
                  /\ compileLog' = IF okx THEN <<parts[1], parts[2]>> ELSE <<parts[1]>>
                  /\ IF okx /\ oky
                     THEN retval' = retval /\ spc' = "gfd_param"
                     ELSE retval' = "null" /\ spc' = "returned"
    /\ loopI' = 0
    /\ points' = << >>
    /\ UNCHANGED <<gfdFrame, loopJ, evaluated, ftype, code, grid, segments, lastPush,
                   lastSaddle>>

\* lines 261-265: one iteration; a throw is caught at line 308
GFD_ParametricSample ==
    /\ spc = "gfd_param"
    /\ loopI <= MaxSteps
    /\ \E ox \in CurveOutcomes, oy \in CurveOutcomes :
         LET r == ParametricPoint(ox, oy)
         IN  /\ evaluated' = r.at
             /\ IF r.threw
                THEN retval' = "null" /\ spc' = "returned"
                     /\ points' = points /\ loopI' = loopI
                ELSE retval' = retval /\ spc' = spc
                     /\ points' = Append(points, r.point) /\ loopI' = loopI + 1
    /\ UNCHANGED <<gfdFrame, loopJ, ftype, code, grid, segments, lastPush, compileLog,
                   lastSaddle>>

\* lines 269-277
GFD_PolarCompile ==
    /\ spc = "gfd_dispatch"
    /\ ftype = "polar"
    /\ compileLog' = <<PolarRhs(normalizeExpression(func.expr))>>
    /\ \E ok \in BOOLEAN :
         IF ok THEN retval' = retval /\ spc' = "gfd_polar"
               ELSE retval' = "null" /\ spc' = "returned"
    /\ loopI' = 0
    /\ points' = << >>
    /\ UNCHANGED <<gfdFrame, loopJ, evaluated, ftype, code, grid, segments, lastPush,
                   lastSaddle>>

\* lines 279-284
GFD_PolarSample ==
    /\ spc = "gfd_polar"
    /\ loopI <= MaxSteps
    /\ \E o \in CurveOutcomes :
         LET r == PolarPoint(o, loopI)
         IN  /\ evaluated' = r.at
             /\ IF r.threw
                THEN retval' = "null" /\ spc' = "returned"
                     /\ points' = points /\ loopI' = loopI
                ELSE retval' = retval /\ spc' = spc
                     /\ points' = Append(points, r.point) /\ loopI' = loopI + 1
    /\ UNCHANGED <<gfdFrame, loopJ, ftype, code, grid, segments, lastPush, compileLog,
                   lastSaddle>>

\* lines 266 and 285
GFD_CurveReturn ==
    /\ spc \in {"gfd_param", "gfd_polar"}
    /\ loopI > MaxSteps
    /\ retval' = "curve"
    /\ spc' = "returned"
    /\ UNCHANGED <<gfdFrame, loopI, loopJ, evaluated, ftype, code, points, grid,
                   segments, lastPush, compileLog, lastSaddle>>

\* lines 288-292
GFD_ImplicitCompile ==
    /\ spc = "gfd_dispatch"
    /\ ftype = "implicit"
    /\ compileLog' = <<ImplicitExpr(normalizeExpression(func.expr))>>
    /\ \/ /\ retval' = "null"
          /\ spc' = "returned"
          /\ code' = code
       \/ /\ code' \in ImplicitEvaluators
          /\ retval' = retval
          /\ spc' = "ms_grid"
    /\ UNCHANGED <<gfdFrame, loopI, loopJ, evaluated, ftype, points, grid, segments,
                   lastPush, lastSaddle>>

\* marchSquares, lines 174-188
MS_EvaluateGrid ==
    /\ spc = "ms_grid"
    /\ grid' = EvaluateGrid(code, xDomain, yDomain, GridResolution)
    /\ segments' = << >>
    /\ loopI' = 0
    /\ loopJ' = 0
    /\ spc' = "ms_march"
    /\ UNCHANGED <<gfdFrame, evaluated, ftype, code, points, lastPush, retval,
                   compileLog, lastSaddle>>

\* marchSquares, lines 191-225: one cell
MS_MarchCell ==
    /\ spc = "ms_march"
    /\ loopI < GridResolution
    /\ LET pushed == MarchCell(grid, xDomain, yDomain, GridResolution, loopI, loopJ)
           index  == GridCellIndex(grid, loopI, loopJ)
       IN  /\ segments' = segments \o pushed
           /\ lastPush' = pushed
           /\ lastSaddle' = IF index \in {5, 10}
                            THEN [index   |-> index,
                                  dsign   |-> DeciderSign(grid, loopI, loopJ),
                                  pairing |-> CellPairing(index)]
                            ELSE lastSaddle
    /\ IF loopJ + 1 < GridResolution
       THEN loopJ' = loopJ + 1 /\ loopI' = loopI
       ELSE loopJ' = 0 /\ loopI' = loopI + 1
    /\ UNCHANGED <<gfdFrame, spc, evaluated, ftype, code, points, grid, retval,
                   compileLog>>

\* lines 227 and 305
MS_Return ==
    /\ spc = "ms_march"
    /\ loopI >= GridResolution
    /\ points' = << >>
    /\ retval' = "curve"
    /\ spc' = "returned"
    /\ UNCHANGED <<gfdFrame, loopI, loopJ, evaluated, ftype, code, grid, segments,
                   lastPush, compileLog, lastSaddle>>

SampleNext ==
    \/ GP_Filter \/ GP_Compile \/ GP_BeginRow \/ GP_Sample \/ GP_PushRow \/ GP_Return
    \/ GFD_Start \/ GFD_Explicit \/ GFD_Geometry
    \/ GFD_ParametricCompile \/ GFD_ParametricSample
    \/ GFD_PolarCompile \/ GFD_PolarSample \/ GFD_CurveReturn
    \/ GFD_ImplicitCompile \/ MS_EvaluateGrid \/ MS_MarchCell \/ MS_Return

SpecSample == SampleInit /\ [][SampleNext]_vars

(***************************************************************************)
(* A session: when a call has returned, the application calls again with   *)
(* other arguments (an expression was edited, the viewport moved).         *)
(***************************************************************************)
\* the caller takes the returned value; the locals of the call are gone
Discard ==
    /\ spc = "returned"
    /\ spc' = "idle"
    /\ explicitExprs' = << >>
    /\ compiledExprs' = << >>
    /\ data' = << >>
    /\ point' = NoPoint
    /\ loopI' = 0
    /\ loopJ' = 0
    /\ loopK' = 0
    /\ evaluated' = OtherV
    /\ ftype' = "none"
    /\ code' = NoEvaluator
    /\ points' = << >>
    /\ grid' = << >>
    /\ segments' = << >>
    /\ lastPush' = << >>
    /\ retval' = "none"
    /\ compileLog' = << >>
    /\ UNCHANGED <<textVars, stitchVars, uiVars, call, expressions, pointCount, xDomain, yDomain, func, lastSaddle>>

Recall ==
    /\ spc = "idle"
    /\ \/ /\ call' = "generatePoints"
          /\ spc' = "gp_filter"
          /\ expressions' \in ExpressionLists
          /\ pointCount' \in 1..MaxPoints
          /\ xDomain' \in Domains
          /\ yDomain' = xDomain'
          /\ func' = NoFunc
       \/ /\ call' = "generateFunctionData"
          /\ spc' = "gfd_start"
          /\ func' \in Functions
          /\ xDomain' \in Domains
          /\ yDomain' = xDomain'
          /\ expressions' = << >>
          /\ pointCount' = 0
    /\ UNCHANGED <<textVars, stitchVars, uiVars, explicitExprs, compiledExprs, data, point, loopI, loopJ,
                   loopK, evaluated, ftype, code, points, grid, segments, lastPush,
                   retval, compileLog, lastSaddle>>

SessionNext == SampleNext \/ Discard \/ Recall

SpecSession == SampleInit /\ [][SessionNext]_vars

(***************************************************************************)
(* Claims on generatePoints and generateFunctionData                       *)
(***************************************************************************)
\* the cell generatePoints recorded in the last callback of the forEach
LastCell == point.cols[compiledExprs[loopK - 1].id]

JustSampled == call = "generatePoints" /\ spc = "gp_cols" /\ loopK > 1

\* the evaluation gave a finite real number (directly, or as the last entry
\* of a result sequence)
EvaluatedFinite ==
    /\ evaluated.t \in {"number", "resultset"}
    /\ evaluated.t = "resultset" => evaluated.last = "number"
    /\ evaluated.num.k = "fin"

\* C3: the entry recorded for a sample is the evaluated number when that is
\* a finite real number and is null for every other outcome (NaN, an
\* infinity, a value that is no number, an exception); no row ever holds
\* anything but finite numbers and nulls.
C3_OnlyFiniteRecorded ==
    /\ JustSampled =>
          IF EvaluatedFinite THEN LastCell = evaluated.num ELSE LastCell = NullCell
    /\ \A r \in 1..Len(data) : \A n \in 1..Len(expressions) :
          data[r].cols[n].k \in {"fin", "null", "absent"}

\* C3 witness: an evaluation gave +Infinity and null was recorded.
C3_Witness ==
    /\ JustSampled
    /\ evaluated = NumberV(Infinity)
    /\ LastCell = NullCell

\* C4: in all three sample evaluators an evaluation that throws leaves the
\* pass running: the pass is not aborted and its result is not null.
C4_ThrowKeepsPass ==
    evaluated.t = "throw" => retval \notin {"null", "threw"}

\* C5: a compile failure never leaves generatePoints or generateFunctionData
\* as an exception; generateFunctionData returns null or a curve; and
\* generatePoints returns pointCount rows in which an expression has a
\* column exactly if it was selected and compiled.
C5_CompileFailureContained ==
    /\ retval # "threw"
    /\ (call = "generateFunctionData" /\ spc = "returned") => retval \in {"null", "curve"}
    /\ (call = "generatePoints" /\ spc = "returned") =>
          /\ retval = "data"
          /\ Len(data) = pointCount
          /\ \A r \in 1..Len(data) : \A n \in 1..Len(expressions) :
                data[r].cols[n].k # "absent"
                    <=> \E c \in 1..Len(compiledExprs) : compiledExprs[c].id = n
          /\ \A c \in 1..Len(compiledExprs) :
                \E e \in 1..Len(explicitExprs) : explicitExprs[e].id = compiledExprs[c].id

\* C5 witness: of two selected expressions one failed to compile, and the
\* other has its column in both rows returned.
C5_Witness ==
    /\ call = "generatePoints"
    /\ spc = "returned"
    /\ Len(explicitExprs) = 2
    /\ Len(compiledExprs) = 1
    /\ Len(data) = 2
    /\ data[1].cols[compiledExprs[1].id].k # "absent"
    /\ data[2].cols[compiledExprs[1].id].k # "absent"

\* the cell marchSquares handled last
Marched == call = "generateFunctionData" /\ spc = "ms_march" /\ (loopI > 0 \/ loopJ > 0)
LastCellI == IF loopJ > 0 THEN loopI ELSE loopI - 1
LastCellJ == IF loopJ > 0 THEN loopJ - 1 ELSE GridResolution - 1
Corner(n) ==
    CASE n = 0 -> grid[<<LastCellI, LastCellJ>>]
      [] n = 1 -> grid[<<LastCellI + 1, LastCellJ>>]
      [] n = 2 -> grid[<<LastCellI + 1, LastCellJ + 1>>]
      [] OTHER -> grid[<<LastCellI, LastCellJ + 1>>]
CornersFinite == \A n \in 0..3 : IsFinite(Corner(n))
CellX0 == GridCoord(xDomain, GridResolution, LastCellI)
CellX1 == GridCoord(xDomain, GridResolution, LastCellI + 1)
CellY0 == GridCoord(yDomain, GridResolution, LastCellJ)
CellY1 == GridCoord(yDomain, GridResolution, LastCellJ + 1)

Between(lo, v, hi) == IsFinite(v) /\ FLeq(lo, v) /\ FLeq(v, hi)

\* p lies on an edge of the last cell whose two corners differ in sign
OnCrossingEdge(p) ==
    \/ /\ GtZero(Corner(0)) # GtZero(Corner(1))
       /\ p.y = CellY0 /\ Between(CellX0, p.x, CellX1)
    \/ /\ GtZero(Corner(1)) # GtZero(Corner(2))
       /\ p.x = CellX1 /\ Between(CellY0, p.y, CellY1)
    \/ /\ GtZero(Corner(3)) # GtZero(Corner(2))
       /\ p.y = CellY1 /\ Between(CellX0, p.x, CellX1)
    \/ /\ GtZero(Corner(0)) # GtZero(Corner(3))
       /\ p.x = CellX0 /\ Between(CellY0, p.y, CellY1)

\* C6: every endpoint of a segment pushed for a cell with finite corner
\* values lies on an edge of that cell whose corners differ in sign, hence
\* in the closed cell rectangle.
C6_EndpointsOnCrossingEdges ==
    (Marched /\ CornersFinite) =>
        \A s \in 1..Len(lastPush) : \A e \in 1..2 : OnCrossingEdge(lastPush[s][e])

\* C7: no segment is pushed for a cell one of whose corner values is not
\* finite.
C7_NonFiniteCellSkipped ==
    (Marched /\ ~CornersFinite) => lastPush = << >>

\* C8: the pairing pushed for a saddle cell follows the sign of
\* d = v0*v2 - v1*v3: a saddle cell whose d has the opposite sign of the d
\* of the saddle cell of the same index before it gets another pairing.
C8_SaddlePairingFollowsDecider ==
    [][ (/\ lastSaddle.index # 0
         /\ lastSaddle'.index = lastSaddle.index
         /\ lastSaddle'.dsign * lastSaddle.dsign < 0)
        => lastSaddle'.pairing # lastSaddle.pairing ]_vars

\* C9: compiled expressions are cached, so while fewer than 200 distinct
\* texts have been compiled (always, here) nothing has been evicted and no
\* text is handed to the compiler a second time.
C9_CompiledTextsCached ==
    \A m \in 1..Len(compileLog) : \A n \in 1..Len(compileLog) :
        m # n => compileLog[m] # compileLog[n]

GpReturned == call = "generatePoints" /\ spc = "returned"

\* every row has a number or null for each expression that compiled
RowsHoldCompiled ==
    \A r \in 1..Len(data) : \A c \in 1..Len(compiledExprs) :
        data[r].cols[compiledExprs[c].id].k \in {"fin", "null"}

\* xMin + i*(xMax - xMin)/(pointCount - 1) as an exact fraction
GridX(i) ==
    Frac(xDomain[1] * (pointCount - 1) + i * (xDomain[2] - xDomain[1]), pointCount - 1)

\* C16 as stated: generatePoints returns pointCount rows, the first at xMin
\* and the last at xMax, each with an entry for every expression that
\* compiled.
C16_GridSpansDomain ==
    GpReturned =>
        /\ Len(data) = pointCount
        /\ data[1].x = Num(xDomain[1])
        /\ data[Len(data)].x = Num(xDomain[2])
        /\ RowsHoldCompiled

\* C16 amended: generatePoints returns pointCount rows, each with an entry
\* for every expression that compiled; for pointCount >= 2 row i is at
\* xMin + i*(xMax - xMin)/(pointCount - 1), the first at xMin and the last
\* at xMax; for pointCount = 1 the x of the only row is NaN.
C16_GridFromTwoPoints ==
    GpReturned =>
        /\ Len(data) = pointCount
        /\ RowsHoldCompiled
        /\ pointCount >= 2 =>
              /\ \A r \in 1..Len(data) : data[r].x = GridX(r - 1)
              /\ data[1].x = Num(xDomain[1])
              /\ data[Len(data)].x = Num(xDomain[2])
        /\ pointCount = 1 => data[1].x = NaN

\* C16 witness: two rows were returned, the first at xMin and the second
\* at xMax, away from each other, each with an entry for a compiled
\* expression.
C16_Witness ==
    /\ GpReturned
    /\ Len(data) = 2
    /\ Len(compiledExprs) >= 1
    /\ data[1].x = Num(xDomain[1])
    /\ data[2].x = Num(xDomain[2])
    /\ data[1].x # data[2].x
    /\ data[2].cols[compiledExprs[1].id].k \in {"fin", "null"}

\* the corners of cell (ci, cj), numbered as v0..v3, whose value is positive
PositiveAt(ci, cj) ==
    {n \in 0..3 :
        GtZero(grid[<<ci + (IF n \in {1, 2} THEN 1 ELSE 0),
                      cj + (IF n \in {2, 3} THEN 1 ELSE 0)>>])}

\* the number of segments a cell with these positive corners is to contribute
SegmentsDue(positive) ==
    IF positive \in {{}, {0, 1, 2, 3}} THEN 0
    ELSE IF positive \in {{0, 2}, {1, 3}} THEN 2
    ELSE 1

GridCells == (0..(GridResolution - 1)) \X (0..(GridResolution - 1))

AllMarched == call = "generateFunctionData" /\ spc = "ms_march" /\ loopI = GridResolution

\* C17: a cell whose four corners are all positive or all non-positive
\* (index 0 or 15) contributes no segment, a saddle cell (index 5 or 10)
\* two, every other cell one; the segments returned are those of all
\* resolution x resolution cells.
C17_SegmentsPerCell ==
    /\ Marched => Len(lastPush) = SegmentsDue(PositiveAt(LastCellI, LastCellJ))
    /\ AllMarched =>
          Len(segments) =
              Cardinality({c \in GridCells : SegmentsDue(PositiveAt(c[1], c[2])) >= 1})
            + Cardinality({c \in GridCells : SegmentsDue(PositiveAt(c[1], c[2])) = 2})

\* C17 witness: a saddle cell has been marched and two segments pushed for it.
C17_Witness ==
    /\ Marched
    /\ PositiveAt(LastCellI, LastCellJ) = {1, 3}
    /\ Len(lastPush) = 2

\* marchSquares is running for an implicit expression
Extracting == call = "generateFunctionData" /\ spc \in {"ms_grid", "ms_march"}

\* clamp(ceil(extent/0.01), 120, 900) for a domain with whole-number bounds
ClampedResolution(dom) ==
    LET r == (dom[2] - dom[1]) * 100
    IN  IF r < 120 THEN 120 ELSE IF r > 900 THEN 900 ELSE r

\* C18: the resolution used on each axis is clamp(ceil(extent/0.01), 120,
\* 900) of that axis when the two multiply to at most 300,000 cells, and
\* otherwise both are scaled down to a product of at most 300,000.
C18_ResolutionFollowsExtent ==
    Extracting =>
        LET rx == ClampedResolution(xDomain)
            ry == ClampedResolution(yDomain)
        IN  /\ ImplicitGridResolution * ImplicitGridResolution <= 300000
            /\ IF rx * ry <= 300000
               THEN ImplicitGridResolution = rx /\ ImplicitGridResolution = ry
               ELSE ImplicitGridResolution <= rx /\ ImplicitGridResolution <= ry

(***************************************************************************)
(* The text pipeline as a state machine: an expression text is entered,    *)
(* normalized, normalized again and classified.                            *)
(***************************************************************************)
\* The pieces input texts are built from.
Tokens ==
    { <<"(", "1", ",", "2", ")">>,
      <<"(", "x", ",">>,
      <<"x", ")">>,
      <<"r">>, <<"y">>, <<"x">>, <<"=">>, <<",">>, <<" ">>,
      <<"f", "(", "x", ")">>,
      <<"{">>, <<"}">>,
      <<"a", ":", "b">>,
      <<"{", "a", ":", "<pi>", ",">>,
      <<"a", ":", "m", "(", "b", ",", "b", ")">>,
      <<"Y">>,
      <<"<pi>">>,
      <<"<div>", "<times>">>,
      <<"<sqrt>", "<inf>">> }

RECURSIVE TextsUpTo(_)
\* the concatenations of at most n tokens
TextsUpTo(n) ==
    IF n = 0 THEN { <<>> }
    ELSE LET shorter == TextsUpTo(n - 1)
         IN  shorter \cup { s \o t : s \in shorter, t \in Tokens }

Inputs == TextsUpTo(MaxTokens)

\* no call of generatePoints or generateFunctionData is running
SampleIdle ==
    /\ LocalsReset
    /\ lastSaddle = NoSaddle
    /\ call = "none"
    /\ spc = "idle"
    /\ expressions = << >>
    /\ pointCount = 0
    /\ xDomain = <<0, 0>>
    /\ yDomain = <<0, 0>>
    /\ func = NoFunc

TextInit ==
    /\ expr \in Inputs
    /\ norm = <<>>
    /\ renorm = <<>>
    /\ fnType = "none"
    /\ tpc = "entered"
    /\ SampleIdle
    /\ StitchIdle
    /\ UiIdle

NormalizeCall ==
    /\ tpc = "entered"
    /\ norm' = normalizeExpression(expr)
    /\ tpc' = "normalized"
    /\ UNCHANGED <<expr, renorm, fnType, sampleVars, stitchVars, uiVars>>

RenormalizeCall ==
    /\ tpc = "normalized"
    /\ renorm' = normalizeExpression(norm)
    /\ tpc' = "renormalized"
    /\ UNCHANGED <<expr, norm, fnType, sampleVars, stitchVars, uiVars>>

DetectCall ==
    /\ tpc = "renormalized"
    /\ fnType' = detectFunctionType(expr)
    /\ tpc' = "classified"
    /\ UNCHANGED <<expr, norm, renorm, sampleVars, stitchVars, uiVars>>

TextNext == NormalizeCall \/ RenormalizeCall \/ DetectCall

SpecText == TextInit /\ [][TextNext]_vars

(***************************************************************************)
(* Claims on the text pipeline                                             *)
(***************************************************************************)
\* C1: detectFunctionType is total: whatever the text, the call returns one
\* of the five kinds geometry, polar, parametric, implicit, explicit.
C1_ClassifierTotal ==
    tpc = "classified" => fnType \in FunctionKinds

\* C1 witness: a text that matches none of the four tested rules has been
\* classified (by the final return).
C1_Witness ==
    /\ tpc = "classified"
    /\ fnType = "explicit"
    /\ Len(expr) >= 2

\* C2: the kind returned is the kind of the earliest rule, in the order
\* geometry, polar, parametric, implicit, explicit, that the text satisfies.
C2_FirstMatchWins ==
    tpc = "classified" =>
        LET n == normalizeExpression(expr)
            g == RuleGeometry(n)
            p == RulePolar(n)
            m == RuleParametric(n)
            i == RuleImplicit(n)
        IN  /\ g => fnType = "geometry"
            /\ (~g /\ p) => fnType = "polar"
            /\ (~g /\ ~p /\ m) => fnType = "parametric"
            /\ (~g /\ ~p /\ ~m /\ i) => fnType = "implicit"
            /\ (~g /\ ~p /\ ~m /\ ~i) => fnType = "explicit"

\* C2 witness: an 'r = ...' text, which the implicit rule matches too, has
\* been classified polar.
C2_Witness ==
    /\ tpc = "classified"
    /\ RulePolar(normalizeExpression(expr))
    /\ RuleImplicit(normalizeExpression(expr))
    /\ fnType = "polar"

\* C10: normalizeExpression is idempotent: normalizing the normalized text
\* gives the normalized text.
C10_NormalizeIdempotent ==
    tpc \in {"renormalized", "classified"} => renorm = norm

\* C10 witness: a text with alias characters that the first call rewrote has
\* been normalized twice.
C10_Witness ==
    /\ tpc = "renormalized"
    /\ norm # expr
    /\ Includes(expr, "<pi>")

AliasChars == {"<pi>", "<div>", "<times>", "<sqrt>", "<inf>"}

\* what the alias character c is to be written as
AliasText(c) ==
    CASE c = "<pi>"    -> <<"p", "i">>
      [] c = "<div>"   -> <<"/">>
      [] c = "<times>" -> <<"*">>
      [] c = "<sqrt>"  -> <<"s", "q", "r", "t">>
      [] c = "<inf>"   -> <<"I", "n", "f", "i", "n", "i", "t", "y">>
      [] OTHER         -> <<c>>

RECURSIVE Spelled(_)
\* the text with every alias character written out
Spelled(s) ==
    IF s = <<>> THEN <<>> ELSE AliasText(Head(s)) \o Spelled(Tail(s))

\* the text is a block in braces (after trimming)
IsBlock(s) ==
    LET t == Trim(s)
    IN  Len(t) >= 2 /\ t[1] = "{" /\ t[Len(t)] = "}"

\* C11: normalizeExpression returns a text for every text; the text it
\* returns holds none of the five alias characters, also for a piecewise
\* block; and for a text that is no block it is the input with every alias
\* character written out as pi, /, *, sqrt, Infinity.
C11_NoAliasLeft ==
    tpc # "entered" =>
        /\ DOMAIN norm = 1..Len(norm)
        /\ \A i \in 1..Len(norm) : norm[i] \notin AliasChars
        /\ ~IsBlock(expr) => norm = Spelled(expr)

\* C11 witness: a piecewise block with an alias character in a value has
\* been normalized to a conditional that holds the written-out alias.
C11_Witness ==
    /\ tpc = "normalized"
    /\ IsBlock(expr)
    /\ Includes(expr, "<pi>")
    /\ Len(norm) > Len(NullText)
    /\ \E i \in 1..(Len(norm) - 1) : norm[i] = "p" /\ norm[i + 1] = "i"

RECURSIVE TopLevelParts(_, _, _)
\* the parts of s between the commas that are inside no parenthesis
TopLevelParts(s, depth, cur) ==
    IF s = <<>> THEN <<cur>>
    ELSE LET c == Head(s)
         IN  IF c = "," /\ depth = 0
             THEN <<cur>> \o TopLevelParts(Tail(s), 0, <<>>)
             ELSE TopLevelParts(Tail(s),
                                IF c = "(" THEN depth + 1
                                ELSE IF c = ")" THEN depth - 1 ELSE depth,
                                cur \o <<c>>)

\* the cond: val pairs of a block, as written
BlockParts(s) ==
    LET t == Trim(Spelled(s))
    IN  TopLevelParts(SubSeq(t, 2, Len(t) - 1), 0, <<>>)

PairCond(part) == Trim(SubSeq(part, 1, IndexOf(part, ":", 1) - 1))
PairVal(part) == Trim(SubSeq(part, IndexOf(part, ":", 1) + 1, Len(part)))

\* every part of the block is a pair 'cond: val' with both sides present
IsPairBlock(s) ==
    /\ IsBlock(s)
    /\ \A i \in 1..Len(BlockParts(s)) :
          LET part == BlockParts(s)[i]
          IN  /\ IndexOf(part, ":", 1) # 0
              /\ PairCond(part) # <<>>
              /\ PairVal(part) # <<>>

RECURSIVE NestedFrom(_, _)
\* the conditional that tests the pairs from the i-th on, in their order
NestedFrom(parts, i) ==
    IF i > Len(parts) THEN NullText
    ELSE <<"(">> \o PairCond(parts[i]) \o <<")", " ", "?", " ", "(">>
             \o PairVal(parts[i]) \o <<")", " ", ":", " ", "(">>
             \o NestedFrom(parts, i + 1) \o <<")">>

\* C12: a block of cond: val pairs is rewritten into the nested conditional
\* that tests cond1 first, then cond2, ..., ends in the sentinel, and holds
\* every cond and every val with its full text.
C12_PiecewiseNested ==
    (tpc # "entered" /\ IsPairBlock(expr)) => norm = NestedFrom(BlockParts(expr), 1)

\* the number of opening minus the number of closing parentheses in s[1..i]
DepthAt(s, i) ==
    Cardinality({k \in 1..i : s[k] = "("}) - Cardinality({k \in 1..i : s[k] = ")"})

\* the whole text is one parenthesis pair that holds exactly one comma
\* outside any inner parenthesis
IsSinglePairOneComma(n) ==
    LET a == Trim(n)
    IN  /\ Len(a) >= 2
        /\ a[1] = "("
        /\ a[Len(a)] = ")"
        /\ DepthAt(a, Len(a)) = 0
        /\ \A i \in 1..(Len(a) - 1) : DepthAt(a, i) >= 1
        /\ Cardinality({i \in 1..Len(a) : a[i] = "," /\ DepthAt(a, i) = 1}) = 1

\* C13: a text that is neither geometry nor polar is classified parametric
\* if and only if the whole text is one parenthesis pair holding exactly one
\* top-level comma.
C13_ParametricIffSinglePair ==
    (tpc = "classified" /\ fnType \notin {"geometry", "polar"}) =>
        (fnType = "parametric" <=> IsSinglePairOneComma(norm))

\* the text holds the character '='
HoldsEquals(n) == \E i \in 1..Len(n) : n[i] = "="

\* the text begins, after optional white space, with y = or f(x) =
BeginsWithYEquals(n) ==
    \E i \in 1..Len(n) : \E j \in (i + 1)..Len(n) :
        /\ \A k \in 1..(i - 1) : n[k] \in WS
        /\ n[j] = "="
        /\ \/ /\ n[i] \in {"y", "Y"}
              /\ \A k \in (i + 1)..(j - 1) : n[k] \in WS
           \/ /\ j >= i + 4
              /\ n[i] \in {"f", "F"} /\ n[i + 1] = "(" /\ n[i + 2] \in {"x", "X"}
              /\ n[i + 3] = ")"
              /\ \A k \in (i + 4)..(j - 1) : n[k] \in WS

\* C14: a text that is not geometry, polar or parametric is classified
\* implicit exactly when it holds '=' and does not begin with y = or
\* f(x) =, and explicit in every other case.
C14_ImplicitOrExplicit ==
    (tpc = "classified" /\ fnType \notin {"geometry", "polar", "parametric"}) =>
        fnType = IF HoldsEquals(norm) /\ ~BeginsWithYEquals(norm)
                 THEN "implicit" ELSE "explicit"

\* C14 witness: a text 'y = ...' that holds '=' has been classified explicit.
C14_Witness ==
    /\ tpc = "classified"
    /\ fnType = "explicit"
    /\ HoldsEquals(norm)
    /\ Len(norm) >= 3
    /\ norm[1] = "y"

RECURSIVE OutsidePairs(_, _)
\* the characters of s from position from on that are in no (number, number) pair
OutsidePairs(s, from) ==
    IF from > Len(s) THEN <<>>
    ELSE LET close == PointMatchEnd(s, from)
         IN  IF close = 0 THEN <<s[from]>> \o OutsidePairs(s, from + 1)
             ELSE OutsidePairs(s, close + 1)

\* the text is one or more (number, number) pairs, with only white space
\* and commas between them
IsOnlyPairs(n) ==
    /\ Len(PointMatches(n, 1)) >= 1
    /\ \A i \in 1..Len(OutsidePairs(n, 1)) : OutsidePairs(n, 1)[i] \in WS \cup {","}

\* C15: a text is classified geometry only if it consists of (number,
\* number) pairs and nothing else; a pair embedded in other syntax does not
\* make the text geometry.
C15_GeometryOnlyPairs ==
    (tpc = "classified" /\ fnType = "geometry") => IsOnlyPairs(norm)

(***************************************************************************)
(* The stitcher as a state machine: a segment list is stitched, and the    *)
(* point pairs of the polylines are stitched again.                        *)
(***************************************************************************)
\* the endpoints segments are drawn from: the second lies within the
\* quantization step of the first
StitchPoints ==
    { [x |-> 0, y |-> 0], [x |-> 4, y |-> 0], [x |-> 10, y |-> 0], [x |-> 0, y |-> 10] }

SegmentLists ==
    UNION { [1..n -> StitchPoints \X StitchPoints] : n \in 0..MaxSegments }

StitchInit ==
    /\ stitchIn \in SegmentLists
    /\ stitchOut = NoRun
    /\ stitchAgain = NoRun
    /\ stpc = "input"
    /\ TextIdle
    /\ SampleIdle
    /\ UiIdle

StitchCall ==
    /\ stpc = "input"
    /\ stitchOut' = StitchRun(stitchIn)
    /\ stpc' = "stitched"
    /\ UNCHANGED <<stitchIn, stitchAgain, textVars, sampleVars, uiVars>>

RestitchCall ==
    /\ stpc = "stitched"
    /\ stitchAgain' = StitchRun(SegmentsOf(stitchOut.polylines))
    /\ stpc' = "restitched"
    /\ UNCHANGED <<stitchIn, stitchOut, textVars, sampleVars, uiVars>>

StitchNext == StitchCall \/ RestitchCall

SpecStitch == StitchInit /\ [][StitchNext]_vars

(***************************************************************************)
(* Claims on the stitcher                                                  *)
(***************************************************************************)
\* the two points are the endpoints of seg, in either order, up to quantization
JoinsEndsOf(seg, p, q) ==
    \/ QKey(p) = QKey(seg[1]) /\ QKey(q) = QKey(seg[2])
    \/ QKey(p) = QKey(seg[2]) /\ QKey(q) = QKey(seg[1])

\* C19: after stitching every input segment has been consumed exactly once
\* and lies in an output polyline, the polylines have as many point pairs
\* as there are segments, every polyline has at least 2 points, and no
\* extension loop took more than (segment count + 1) steps.
C19_EverySegmentOnce ==
    stpc \in {"stitched", "restitched"} =>
        LET lines == stitchOut.polylines
        IN  /\ \A k \in 1..Len(stitchIn) :
                  /\ stitchOut.uses[k] = 1
                  /\ stitchOut.used[k]
                  /\ \E l \in 1..Len(lines) : \E i \in 1..(Len(lines[l]) - 1) :
                        JoinsEndsOf(stitchIn[k], lines[l][i], lines[l][i + 1])
            /\ Len(SegmentsOf(lines)) = Len(stitchIn)
            /\ \A l \in 1..Len(lines) : Len(lines[l]) >= 2
            /\ stitchOut.steps <= Len(stitchIn) + 1

\* C19 witness: three segments that form a cycle have been stitched into
\* one closed polyline of four points.
C19_Witness ==
    /\ stpc = "stitched"
    /\ Len(stitchIn) = 3
    /\ Len(stitchOut.polylines) = 1
    /\ Len(stitchOut.polylines[1]) = 4
    /\ QKey(stitchOut.polylines[1][1]) = QKey(stitchOut.polylines[1][4])
    /\ Cardinality({QKey(stitchOut.polylines[1][i]) : i \in 1..4}) = 3

Reversed(line) == [i \in 1..Len(line) |-> line[Len(line) + 1 - i]]

\* every polyline of a is a polyline of b, as it is or reversed
EachAmong(a, b) ==
    \A l \in 1..Len(a) : \E m \in 1..Len(b) : b[m] = a[l] \/ b[m] = Reversed(a[l])

ParametricReturned ==
    call = "generateFunctionData" /\ spc = "returned" /\ ftype = "parametric"

\* the text inside the outer parentheses of a pair, blanks around them dropped
InsideOuter(n) == LET a == Trim(n) IN SubSeq(a, 2, Len(a) - 1)

\* C22: for every expression classified parametric the two sampled
\* sub-expressions are the text before and the text after the single
\* top-level comma inside the outer parentheses; commas nested inside a
\* call of a component and whitespace around the outer parentheses do not
\* keep the expression from producing its points: the components compiled
\* are those two texts.
C22_ParametricSplitsAtTopLevelComma ==
    ParametricReturned =>
        LET parts == TopLevelParts(InsideOuter(normalizeExpression(func.expr)), 0, <<>>)
        IN  /\ Len(parts) = 2 => (compileLog # <<>> /\ compileLog[1] = parts[1])
            /\ Len(compileLog) = 2 => compileLog[2] = parts[2]

\* two points with finite coordinates that are the same point
Coincide(p, q) ==
    /\ IsFinite(p.x) /\ IsFinite(p.y) /\ IsFinite(q.x) /\ IsFinite(q.y)
    /\ p = q

\* C23: every segment the contour extractor returns has exactly 2 points,
\* and none is degenerate: a segment whose two endpoints coincide, as when a
\* corner value is exactly zero, is dropped and not emitted.
C23_NoDegenerateSegment ==
    \A s \in 1..Len(segments) :
        /\ Len(segments[s]) = 2
        /\ ~Coincide(segments[s][1], segments[s][2])

\* the text holds several statements, one per line
IsMultiStatement(e) == Includes(Trim(e), "\n")

\* C24: a multi-statement expression is sampled as an explicit curve with
\* the value of its last statement: a result sequence is recorded as its
\* last element (when that is a finite number, else null), and every
\* visible multi-statement text, one that begins with an assignment such as
\* 'A = 2' included, is among the expressions generatePoints samples.
C24_MultiStatementSampled ==
    /\ (JustSampled /\ evaluated.t = "resultset") =>
          LastCell = IF evaluated.last = "number" /\ IsFinite(evaluated.num)
                     THEN evaluated.num ELSE NullCell
    /\ GpReturned =>
          \A n \in 1..Len(expressions) :
              (expressions[n].visible /\ IsMultiStatement(expressions[n].expr)) =>
                  \E e \in 1..Len(explicitExprs) : explicitExprs[e].id = n

\* the expression may be drawn from the rows of generatePoints
IsExplicitCurve(e) ==
    /\ e.visible
    /\ Trim(e.expr) # <<>>
    /\ detectFunctionType(e.expr) = "explicit"
    /\ parseGeometry(e.expr).type = "null"

GfdReturned == call = "generateFunctionData" /\ spc = "returned"

\* C30: each expression gets curve data from at most one producer.
\* generatePoints emits a column for an expression's id only if the
\* expression is visible, not blank, classified explicit and no geometry;
\* generateFunctionData returns null for an invisible or blank expression
\* and for the geometry kind, an empty point list for the explicit kind,
\* and points or segments only for the parametric, polar and implicit kinds.
C30_OneProducer ==
    /\ call = "generatePoints" =>
          \A n \in 1..Len(expressions) :
              /\ \A r \in 1..Len(data) :
                    data[r].cols[n].k # "absent" => IsExplicitCurve(expressions[n])
              /\ (point # NoPoint /\ point.cols[n].k # "absent") =>
                    IsExplicitCurve(expressions[n])
    /\ GfdReturned =>
          LET kind == detectFunctionType(func.expr)
          IN  /\ (~func.visible \/ Trim(func.expr) = <<>>) => retval = "null"
              /\ kind = "geometry" => retval = "null"
              /\ (func.visible /\ Trim(func.expr) # <<>> /\ kind = "explicit") =>
                    (retval = "curve" /\ points = <<>> /\ segments = <<>>)
              /\ (retval = "curve" /\ (points # <<>> \/ segments # <<>>)) =>
                    kind \in {"parametric", "polar", "implicit"}

\* C30 witness: generatePoints returned rows for an explicit text and a
\* text of another kind, both visible: the first has a column in every row
\* and the second has none.
C30_Witness ==
    /\ GpReturned
    /\ Len(expressions) = 2
    /\ expressions[1].visible /\ expressions[2].visible
    /\ detectFunctionType(expressions[1].expr) = "explicit"
    /\ Trim(expressions[2].expr) # <<>>
    /\ detectFunctionType(expressions[2].expr) \in {"parametric", "polar", "implicit"}
    /\ Len(data) = pointCount
    /\ \A r \in 1..Len(data) :
          data[r].cols[1].k # "absent" /\ data[r].cols[2].k = "absent"

(***************************************************************************)
(* formatGeometry, mathUtils.ts:135-139, the parseFloat of parseGeometry   *)
(* (lines 123-126), and the drag of a vertex, Graph.tsx:403-434            *)
(***************************************************************************)
MaxDrags == 1

DigitChars == <<"0", "1", "2", "3", "4", "5", "6", "7", "8", "9">>

DigitOf(c) == (CHOOSE d \in 1..10 : DigitChars[d] = c) - 1

RECURSIVE NatText(_)
\* the decimal digits of the natural number n
NatText(n) ==
    IF n < 10 THEN <<DigitChars[n + 1]>>
    ELSE NatText(n \div 10) \o <<DigitChars[(n % 10) + 1]>>

RECURSIVE NatValue(_)
\* the number a digit string stands for; the empty string stands for 0
NatValue(t) ==
    IF t = <<>> THEN 0
    ELSE 10 * NatValue(SubSeq(t, 1, Len(t) - 1)) + DigitOf(t[Len(t)])

RECURSIVE Pow10(_)
Pow10(e) == IF e = 0 THEN 1 ELSE 10 * Pow10(e - 1)

\* the integer nearest to a positive multiple of |a|, the larger one of two
\* equally near
NearestMultiple(a, scale) == (2 * scale * Abs(a.n) + a.d) \div (2 * a.d)

\* the digits m filled up with zeros in front to at least len digits
ZeroFilled(m, len) ==
    IF Len(m) >= len THEN m
    ELSE [i \in 1..len |-> IF i <= len - Len(m) THEN "0" ELSE m[i - (len - Len(m))]]

\* the digits m with a point before the last k of them
PointBefore(m, k) ==
    SubSeq(m, 1, Len(m) - k) \o <<".">> \o SubSeq(m, Len(m) - k + 1, Len(m))

\* toFixed(1) in the place of toFixed(2)
toFixed1(a) ==
    (IF a.n < 0 THEN <<"-">> ELSE <<>>)
    \o PointBefore(ZeroFilled(NatText(NearestMultiple(a, 10)), 2), 1)

\* line 137: Number(v).toFixed(2) of a finite v below 1e21 in magnitude: the
\* sign, then the integer n nearest to 100*|v| (the larger one of two equally
\* near), written with at least three digits and a point before the last two
toFixed2(a) ==
    (IF a.n < 0 THEN <<"-">> ELSE <<>>)
    \o PointBefore(ZeroFilled(NatText(NearestMultiple(a, 100)), 3), 2)

\* line 137: the template literal
FormatPoint(p) ==
    <<"(">> \o toFixed2(p.x) \o <<",", " ">> \o toFixed2(p.y) \o <<")">>

RECURSIVE JoinPoints(_, _)
\* lines 136-138: map and join(', ')
JoinPoints(pts, i) ==
    IF i > Len(pts) THEN <<>>
    ELSE (IF i > 1 THEN <<",", " ">> ELSE <<>>) \o FormatPoint(pts[i])
         \o JoinPoints(pts, i + 1)

formatGeometry(g) == JoinPoints(g.points, 1)

\* the position of the e or E of a number text, 0 when it has none
ExponentAt(u) ==
    LET e1 == IndexOf(u, "e", 1)
        e2 == IndexOf(u, "E", 1)
    IN  IF e1 = 0 THEN e2 ELSE IF e2 = 0 THEN e1 ELSE IF e1 < e2 THEN e1 ELSE e2

\* the value of digits, or of digits '.' digits
MantissaValue(m) ==
    LET dot == IndexOf(m, ".", 1)
    IN  IF dot = 0 THEN Num(NatValue(m))
        ELSE Frac(NatValue(SubSeq(m, 1, dot - 1) \o SubSeq(m, dot + 1, Len(m))),
                  Pow10(Len(m) - dot))

\* v times ten to the exponent written in tl, the text after the e
Scaled(v, tl) ==
    IF tl = <<>> THEN v
    ELSE IF Head(tl) = "-" THEN FDiv(v, Num(Pow10(NatValue(Tail(tl)))))
    ELSE IF Head(tl) = "+" THEN FMul(v, Num(Pow10(NatValue(Tail(tl)))))
    ELSE FMul(v, Num(Pow10(NatValue(tl))))

\* the value of a number text without a sign
UnsignedValue(u) ==
    IF ExponentAt(u) = 0 THEN MantissaValue(u)
    ELSE Scaled(MantissaValue(SubSeq(u, 1, ExponentAt(u) - 1)),
                SubSeq(u, ExponentAt(u) + 1, Len(u)))

\* lines 124-125: parseFloat of a text the number pattern of line 115 matched
parseFloat(t) ==
    IF t # <<>> /\ Head(t) = "-" THEN FNeg(UnsignedValue(Tail(t)))
    ELSE UnsignedValue(t)

\* lines 117-132: parseGeometry with the numbers of lines 123-126
parseGeometryPoints(e) ==
    LET g == parseGeometry(e)
    IN  [type   |-> g.type,
         points |-> [i \in 1..Len(g.points) |->
                        [x |-> parseFloat(g.points[i].x),
                         y |-> parseFloat(g.points[i].y)]]]

\* the expr texts of geometry items: three as typed, one as formatGeometry
\* left it
GeometryTexts ==
    { <<"(", "0", ".", "1", "2", "5", ",", "1", ")">>,
      <<"(", "-", ".", "5", ",", " ", "2", ")", ",", " ", "(", "1", ",", "1", ")">>,
      <<"(", "1", "e", "1", ",", "0", ")", "(", "0", ",", "3", ")", "(", "2", ",", "2", ")">>,
      <<"(", "0", ".", "1", "3", ",", " ", "-", "1", ".", "0", "0", ")", ",", " ",
        "(", "1", "0", ".", "0", "0", ",", " ", "0", ".", "0", "0", ")">> }

\* the coordinates the pointer can be at
Coordinates ==
    { Frac(-257, 256), Frac(-1, 256), Num(0), Frac(1, 8), Frac(255, 256), Num(10) }

GeomInit ==
    /\ geomText \in GeometryTexts
    /\ geomBefore = NoGeometry
    /\ geomArg = NoGeometry
    /\ dragIndex = 0
    /\ dragCount = 0
    /\ TextIdle
    /\ SampleIdle
    /\ StitchIdle
    /\ GraphIdle
    /\ AppIdle
    /\ SnapIdle

\* Graph.tsx 403-434 with App.tsx 39-41: one mouse move while a vertex of
\* the item is dragged
DragVertex ==
    /\ dragCount < MaxDrags
    /\ \E geometry \in {parseGeometryPoints(geomText)} :
         /\ geometry.type # "null"
         /\ \E idx \in 1..Len(geometry.points), newX \in Coordinates, newY \in Coordinates :
              \E newPoints \in {[geometry.points EXCEPT ![idx] = [x |-> newX, y |-> newY]]} :
                 /\ geomBefore' = geometry
                 /\ geomArg' = [geometry EXCEPT !.points = newPoints]
                 /\ dragIndex' = idx
                 /\ geomText' = formatGeometry([geometry EXCEPT !.points = newPoints])
    /\ dragCount' = dragCount + 1
    /\ UNCHANGED <<textVars, sampleVars, stitchVars, graphVars, appVars, snapVars>>

GeomNext == DragVertex

SpecGeometry == GeomInit /\ [][GeomNext]_vars

\* r is a whole number of hundredths and no further than 0.005 from a
IsRounded2(r, a) ==
    /\ r.k = "fin"
    /\ 100 % r.d = 0
    /\ FLeq(FAbs(FSub(r, a)), Frac(1, 200))

\* C29: geometry text round-trips through formatting and parsing: for a
\* geometry g with finite coordinates parseGeometry(formatGeometry(g)) has
\* as many points in the same order and the same type (point for 1 point,
\* polygon otherwise), each coordinate the original rounded to 2 decimals;
\* hence a drag of one vertex keeps the vertex count, puts the new position
\* at the dragged index and leaves the other vertices where they were.
C29_GeometryRoundTrip ==
    dragCount > 0 =>
        LET back == parseGeometryPoints(geomText)
        IN  /\ Len(back.points) = Len(geomArg.points)
            /\ back.type = geomArg.type
            /\ back.type = IF Len(back.points) = 1 THEN "point" ELSE "polygon"
            /\ \A i \in 1..Len(back.points) :
                  /\ IsRounded2(back.points[i].x, geomArg.points[i].x)
                  /\ IsRounded2(back.points[i].y, geomArg.points[i].y)
            /\ Len(back.points) = Len(geomBefore.points)
            /\ \A i \in 1..Len(back.points) :
                  i # dragIndex =>
                     /\ IsRounded2(back.points[i].x, geomBefore.points[i].x)
                     /\ IsRounded2(back.points[i].y, geomBefore.points[i].y)

\* C29 witness: the second vertex of a polygon of three was dragged to
\* (-1/256, 1/8); the text now reads 0.00 and 0.13 there and the first vertex
\* still reads 10.00, 0.00.
C29_Witness ==
    /\ dragCount > 0
    /\ Len(geomArg.points) = 3
    /\ dragIndex = 2
    /\ geomArg.points[2] = [x |-> Frac(-1, 256), y |-> Frac(1, 8)]
    /\ parseGeometryPoints(geomText).points[2] = [x |-> Num(0), y |-> Frac(13, 100)]
    /\ parseGeometryPoints(geomText).points[1] = [x |-> Num(10), y |-> Num(0)]

(***************************************************************************)
(* Graph.tsx: the batching of domain updates into animation frames (lines  *)
(* 174-190), the interaction state (167-172, 271-281, 384-398, 461-479)    *)
(* and the cleanup on unmount (196-211).  Events, timers, animation frames *)
(* and renders are scheduled by the browser and by React: any of them that *)
(* is due may come next.                                                    *)
(***************************************************************************)
MaxDomains == 2
MaxFrames == 2

\* the pairs of an x-domain and a y-domain, each named by a number
DomainPairs == { [x |-> a, y |-> b] : a \in 1..MaxDomains, b \in 1..MaxDomains }

\* onInteractionChange?.(v): the record keeps the last two values
Notify(notes, v) == IF Len(notes) = 2 THEN <<notes[2], v>> ELSE Append(notes, v)

\* syncInteractionState without the test of line 169
syncInteractionStateNoTest(w, p, active, notes) ==
    [active |-> w \/ p, notified |-> Notify(notes, w \/ p)]

\* lines 167-172
syncInteractionState(w, p, active, notes) ==
    LET nextActive == w \/ p
    IN  IF active = nextActive THEN [active |-> active, notified |-> notes]
        ELSE [active |-> nextActive, notified |-> Notify(notes, nextActive)]

\* scheduleDomainUpdate without the test of line 188
scheduleDomainUpdateNoTest(next, frame, raf) ==
    [pending |-> next, frame |-> TRUE, raf |-> raf + 1]

\* lines 184-190: what the call leaves in pendingDomainRef and frameRef, and
\* the number of frames requested of the browser
scheduleDomainUpdate(next, frame, raf) ==
    [pending |-> next, frame |-> TRUE, raf |-> IF frame THEN raf ELSE raf + 1]

GraphInit ==
    /\ mounted = TRUE
    /\ GraphRefsFresh
    /\ TextIdle
    /\ SampleIdle
    /\ StitchIdle
    /\ GeomIdle
    /\ AppIdle
    /\ SnapIdle

\* the variables a call of scheduleDomainUpdate(next) sets
Schedules(next) ==
    LET r == scheduleDomainUpdate(next, frameRef, rafPending)
    IN  /\ r.raf <= MaxFrames
        /\ pendingDomain' = r.pending
        /\ frameRef' = r.frame
        /\ rafPending' = r.raf
        /\ lastScheduled' = next
        /\ frameScheduled' = IF r.raf > rafPending THEN next ELSE frameScheduled

\* the variables a call of syncInteractionState sets, the flags being w and p
Syncs(w, p) ==
    LET r == syncInteractionState(w, p, interactionActive, notified)
    IN  /\ interactionActive' = r.active
        /\ notified' = r.notified

\* lines 271-337: handleWheel; the pointer is outside the chart area (line
\* 292), or the zoom gives the pair next (line 336)
HandleWheel ==
    /\ mounted
    /\ wheelFlag' = TRUE
    /\ Syncs(TRUE, panFlag)
    /\ wheelTimer' = TRUE
    /\ \/ /\ lastCall' = "wheel"
          /\ UNCHANGED <<pendingDomain, frameRef, rafPending, lastScheduled, frameScheduled>>
       \/ /\ lastCall' = "wheel zoom"
          /\ \E next \in DomainPairs : Schedules(next)
    /\ UNCHANGED <<textVars, sampleVars, stitchVars, geomVars, appVars, snapVars, mounted, panFlag, panning,
                   renderPending, listening, buttonDown, xUpdates, yUpdates>>

\* lines 278-281: the timeout of the last wheel event expires
WheelTimeout ==
    /\ wheelTimer
    /\ wheelTimer' = FALSE
    /\ wheelFlag' = FALSE
    /\ Syncs(FALSE, panFlag)
    /\ lastCall' = "wheel timeout"
    /\ UNCHANGED <<textVars, sampleVars, stitchVars, geomVars, appVars, snapVars, mounted, panFlag, panning,
                   renderPending, listening, buttonDown, pendingDomain, frameRef,
                   rafPending, frameScheduled, lastScheduled, xUpdates, yUpdates>>

\* lines 384-398: handleContainerMouseDown with e.button === 1
HandleContainerMouseDown ==
    /\ mounted
    /\ ~buttonDown
    /\ buttonDown' = TRUE
    /\ panFlag' = TRUE
    /\ Syncs(wheelFlag, TRUE)
    /\ panning' = TRUE
    /\ renderPending' = TRUE
    /\ lastCall' = "mouse down"
    /\ UNCHANGED <<textVars, sampleVars, stitchVars, geomVars, appVars, snapVars, mounted, wheelFlag,
                   wheelTimer, listening, pendingDomain, frameRef, rafPending,
                   frameScheduled, lastScheduled, xUpdates, yUpdates>>

\* lines 470-479: the render of a state change and its effect: the listeners
\* of the render before are removed and, when panning is set, those of this
\* render are registered
RenderGraph ==
    /\ mounted
    /\ renderPending
    /\ renderPending' = FALSE
    /\ listening' = panning
    /\ lastCall' = "render"
    /\ UNCHANGED <<textVars, sampleVars, stitchVars, geomVars, appVars, snapVars, mounted, wheelFlag, panFlag,
                   interactionActive, wheelTimer, panning, buttonDown, pendingDomain,
                   frameRef, rafPending, frameScheduled, lastScheduled, xUpdates,
                   yUpdates, notified>>

\* lines 435-458: handleMouseMove of a render in which panning is set
HandleMouseMove ==
    /\ mounted
    /\ listening
    /\ \E next \in DomainPairs : Schedules(next)
    /\ lastCall' = "mouse move"
    /\ UNCHANGED <<textVars, sampleVars, stitchVars, geomVars, appVars, snapVars, mounted, wheelFlag, panFlag,
                   interactionActive, wheelTimer, panning, renderPending, listening,
                   buttonDown, xUpdates, yUpdates, notified>>

\* the middle button is released: handleMouseUp (lines 461-468) runs when
\* the window listener is registered, with panning as that render saw it
ReleaseButton ==
    /\ mounted
    /\ buttonDown
    /\ buttonDown' = FALSE
    /\ IF listening
       THEN /\ panFlag' = FALSE
            /\ Syncs(wheelFlag, FALSE)
            /\ panning' = FALSE
            /\ renderPending' = TRUE
            /\ lastCall' = "mouse up"
       ELSE /\ lastCall' = "mouse up unheard"
            /\ UNCHANGED <<panFlag, interactionActive, notified, panning, renderPending>>
    /\ UNCHANGED <<textVars, sampleVars, stitchVars, geomVars, appVars, snapVars, mounted, wheelFlag,
                   wheelTimer, listening, pendingDomain, frameRef, rafPending,
                   frameScheduled, lastScheduled, xUpdates, yUpdates>>

\* lines 174-182: the animation frame fires and calls flushDomainUpdate
FrameFires ==
    /\ rafPending > 0
    /\ rafPending' = rafPending - 1
    /\ frameRef' = FALSE
    /\ IF pendingDomain = NoDomain
       THEN xUpdates' = <<>> /\ yUpdates' = <<>> /\ pendingDomain' = pendingDomain
       ELSE /\ pendingDomain' = NoDomain
            /\ xUpdates' = <<pendingDomain.x>>
            /\ yUpdates' = <<pendingDomain.y>>
    /\ lastCall' = "frame"
    /\ UNCHANGED <<textVars, sampleVars, stitchVars, geomVars, appVars, snapVars, mounted, wheelFlag, panFlag,
                   interactionActive, wheelTimer, panning, renderPending, listening,
                   buttonDown, frameScheduled, lastScheduled, notified>>

\* lines 196-211, 341-343 and 475-478: the cleanups on unmount
Unmount ==
    /\ mounted
    /\ mounted' = FALSE
    /\ rafPending' = 0
    /\ wheelTimer' = FALSE
    /\ wheelFlag' = FALSE
    /\ panFlag' = FALSE
    /\ interactionActive' = FALSE
    /\ notified' = IF interactionActive THEN Notify(notified, FALSE) ELSE notified
    /\ listening' = FALSE
    /\ renderPending' = FALSE
    /\ lastCall' = "unmount"
    /\ UNCHANGED <<textVars, sampleVars, stitchVars, geomVars, appVars, snapVars, panning, buttonDown,
                   pendingDomain, frameRef, frameScheduled, lastScheduled, xUpdates,
                   yUpdates>>

GraphNext ==
    \/ HandleWheel \/ WheelTimeout \/ HandleContainerMouseDown \/ RenderGraph
    \/ HandleMouseMove \/ ReleaseButton \/ FrameFires \/ Unmount

SpecGraph == GraphInit /\ [][GraphNext]_vars

\* a step that called scheduleDomainUpdate
ScheduledNow == lastCall' \in {"wheel zoom", "mouse move"}

\* C25: calls of scheduleDomainUpdate made while an animation frame is
\* pending request no further frame, so at most one frame is pending at any
\* time; when the frame fires, flushDomainUpdate delivers exactly one
\* x-domain and one y-domain update, those of the pair scheduled last, and
\* clears the pending value and the frame handle, so that the next
\* scheduleDomainUpdate requests a new frame.
C25_OneFramePerBurst ==
    /\ [](rafPending <= 1 /\ (mounted => (frameRef <=> rafPending = 1)))
    /\ [][ /\ (ScheduledNow /\ frameRef) => rafPending' = rafPending
           /\ (ScheduledNow /\ ~frameRef) => (rafPending' = rafPending + 1 /\ frameRef')
           /\ lastCall' = "frame" =>
                 /\ xUpdates' = <<lastScheduled.x>>
                 /\ yUpdates' = <<lastScheduled.y>>
                 /\ pendingDomain' = NoDomain
                 /\ ~frameRef' ]_vars

\* C25 witness: a frame fired after a second pair was scheduled while it was
\* pending, and delivered the second pair.
C25_Witness ==
    /\ lastCall = "frame"
    /\ frameScheduled.x # lastScheduled.x
    /\ frameScheduled.y # lastScheduled.y
    /\ xUpdates = <<lastScheduled.x>>
    /\ yUpdates = <<lastScheduled.y>>
    /\ pendingDomain = NoDomain
    /\ ~frameRef

\* C26: onInteractionChange is invoked only when the value of (wheel active
\* or pan active) changes: successive notifications alternate true, false,
\* true, ..., starting with true, and the last value notified equals the
\* current value of interactionActiveRef over every interleaving of wheel
\* events, timeout expiries, button presses, releases and the unmount.
C26_NotificationsAlternate ==
    /\ Len(notified) = 2 => notified[1] # notified[2]
    /\ Len(notified) = 1 => notified[1] = TRUE
    /\ notified # <<>> => notified[Len(notified)] = interactionActive
    /\ notified = <<>> => ~interactionActive
    /\ interactionActive = (wheelFlag \/ panFlag)

\* C26 witness: a wheel event during a pan that followed an earlier
\* interaction: both flags are set and the last notifications are false, true.
C26_Witness ==
    /\ wheelFlag
    /\ panFlag
    /\ lastCall \in {"wheel", "wheel zoom"}
    /\ notified = <<FALSE, TRUE>>

\* nothing the component has scheduled is left to run and the button is up
GraphAtRest == mounted /\ ~buttonDown /\ ~wheelTimer /\ ~renderPending

\* C27: every interaction ends: once the middle button is released and the
\* timeout of the last wheel event has expired, interactionActiveRef is
\* false and the last notification was false, also when the release came
\* before the component had re-rendered and registered its window listeners.
C27_InteractionEnds ==
    GraphAtRest =>
        /\ ~interactionActive
        /\ notified # <<>> => notified[Len(notified)] = FALSE

(***************************************************************************)
(* App.tsx: the function list (lines 12-18 and 28-45).  A call of          *)
(* setFunctions replaces the value the next render will see; the three     *)
(* handlers compute that value from the functions of the render they were  *)
(* created in.                                                             *)
(***************************************************************************)
MaxIds == 3
MaxBatch == 2

ItemTexts == {"a", "b"}

\* lines 12-15
INITIAL_FUNCTIONS ==
    << [id |-> 1, expr |-> "a", visible |-> TRUE],
       [id |-> 2, expr |-> "b", visible |-> TRUE] >>

\* the Partial<FunctionItem> values the callers pass: an expr or a visible
Updates ==
    { [field |-> "expr", expr |-> e, visible |-> TRUE] : e \in ItemTexts }
    \cup { [field |-> "visible", expr |-> "a", visible |-> v] : v \in BOOLEAN }

\* { ...f, ...updates }
Merge(f, updates) ==
    IF updates.field = "expr" THEN [f EXCEPT !.expr = updates.expr]
    ELSE [f EXCEPT !.visible = updates.visible]

\* lines 33-36: the argument of setFunctions in addFunction
Added(list, newId, e) == Append(list, [id |-> newId, expr |-> e, visible |-> TRUE])

\* line 40: the argument of setFunctions in updateFunction
Updated(list, id, updates) ==
    [n \in 1..Len(list) |-> IF list[n].id = id THEN Merge(list[n], updates) ELSE list[n]]

\* line 44: the argument of setFunctions in removeFunction
Removed(list, id) == SelectSeq(list, LAMBDA f : f.id # id)

\* the ids of the items of a list
IdsOf(list) == { list[n].id : n \in 1..Len(list) }

AppInit ==
    /\ functions = INITIAL_FUNCTIONS
    /\ queued = INITIAL_FUNCTIONS
    /\ intended = INITIAL_FUNCTIONS
    /\ callsQueued = 0
    /\ TextIdle
    /\ SampleIdle
    /\ StitchIdle
    /\ GeomIdle
    /\ GraphIdle
    /\ SnapIdle

\* lines 28-37; the id drawn at line 29 is one no item has had
AddFunction ==
    /\ callsQueued < MaxBatch
    /\ \E newId \in 1..MaxIds, e \in ItemTexts :
         /\ newId \notin IdsOf(functions) \cup IdsOf(intended)
         /\ queued' = Added(functions, newId, e)
         /\ intended' = Added(intended, newId, e)
    /\ callsQueued' = callsQueued + 1
    /\ UNCHANGED <<textVars, sampleVars, stitchVars, geomVars, graphVars, snapVars, functions>>

\* lines 39-41
UpdateFunction ==
    /\ callsQueued < MaxBatch
    /\ \E id \in IdsOf(functions), updates \in Updates :
         /\ queued' = Updated(functions, id, updates)
         /\ intended' = Updated(intended, id, updates)
    /\ callsQueued' = callsQueued + 1
    /\ UNCHANGED <<textVars, sampleVars, stitchVars, geomVars, graphVars, snapVars, functions>>

\* lines 43-45
RemoveFunction ==
    /\ callsQueued < MaxBatch
    /\ \E id \in IdsOf(functions) :
         /\ queued' = Removed(functions, id)
         /\ intended' = Removed(intended, id)
    /\ callsQueued' = callsQueued + 1
    /\ UNCHANGED <<textVars, sampleVars, stitchVars, geomVars, graphVars, snapVars, functions>>

\* line 18: the component renders with the value last asked for
RenderApp ==
    /\ callsQueued > 0
    /\ functions' = queued
    /\ intended' = intended
    /\ callsQueued' = 0
    /\ UNCHANGED <<textVars, sampleVars, stitchVars, geomVars, graphVars, snapVars, queued>>

AppNext == AddFunction \/ UpdateFunction \/ RemoveFunction \/ RenderApp

SpecApp == AppInit /\ [][AppNext]_vars

\* C28: no function-list update is lost: after any sequence of addFunction,
\* updateFunction and removeFunction calls, several of them before a render
\* included, each remaining item reflects the latest update addressed to its
\* id, items with other ids keep their fields, and the order is preserved.
C28_NoUpdateLost == queued = intended

(***************************************************************************)
(* The anchor snapper.  Its code is not among the sources (Graph.tsx:82    *)
(* draws funcData.polylines, which generateFunctionData as given never     *)
(* sets); it is modelled from the specification, section 4.8: each anchor  *)
(* is snapped onto the nearest polyline point when that point is within    *)
(* the snap distance.  Coordinates are whole numbers and distances are     *)
(* compared by their squares.                                              *)
(***************************************************************************)
MaxAnchors == 2
MaxLinePoints == 3

\* the snap distance, in the units of the coordinates
SnapDistance == 1

Dist2(p, q) == (p.x - q.x) * (p.x - q.x) + (p.y - q.y) * (p.y - q.y)

WithinSnap(p, q) == Dist2(p, q) <= SnapDistance * SnapDistance

\* the positions <<line, index>> of the points of the polylines
PositionsOf(lines) ==
    { <<l, i>> : l \in 1..Len(lines), i \in 1..MaxLinePoints } \cap
    { pos \in (1..Len(lines)) \X (1..MaxLinePoints) : pos[2] <= Len(lines[pos[1]]) }

\* the position of the polyline point nearest to the anchor, the first in
\* reading order among equally near ones
NearestPosition(lines, a) ==
    CHOOSE pos \in PositionsOf(lines) :
        \A other \in PositionsOf(lines) :
            \/ Dist2(lines[pos[1]][pos[2]], a) < Dist2(lines[other[1]][other[2]], a)
            \/ /\ Dist2(lines[pos[1]][pos[2]], a) = Dist2(lines[other[1]][other[2]], a)
               /\ (pos[1] < other[1] \/ (pos[1] = other[1] /\ pos[2] <= other[2]))

\* a snap that moves the nearest point whatever its distance
SnapOneAnyDistance(lines, a) ==
    IF PositionsOf(lines) = {} THEN lines
    ELSE LET pos == NearestPosition(lines, a)
         IN  [lines EXCEPT ![pos[1]][pos[2]] = a]

\* one anchor is snapped onto the nearest polyline point
SnapOne(lines, a) ==
    IF PositionsOf(lines) = {} THEN lines
    ELSE LET pos == NearestPosition(lines, a)
         IN  IF WithinSnap(lines[pos[1]][pos[2]], a)
             THEN [lines EXCEPT ![pos[1]][pos[2]] = a]
             ELSE lines

RECURSIVE snapAnchors(_, _, _)
\* the anchors are snapped one after the other
snapAnchors(lines, as, i) ==
    IF i > Len(as) THEN lines
    ELSE snapAnchors(SnapOne(lines, as[i]), as, i + 1)

SnapPoints == { [x |-> a, y |-> b] : a \in {0, 1, 3}, b \in {0, 2} }

\* anchors lie on an axis
AnchorPoints == { p \in SnapPoints : p.x = 0 \/ p.y = 0 }

\* one polyline of two points or more
SnapInputs ==
    UNION { { <<line>> : line \in [1..n -> SnapPoints] } : n \in 2..MaxLinePoints }

AnchorLists == UNION { [1..n -> AnchorPoints] : n \in 0..MaxAnchors }

SnapInit ==
    /\ snapIn \in SnapInputs
    /\ anchors \in AnchorLists
    /\ snapOut = <<>>
    /\ snpc = "input"
    /\ TextIdle
    /\ SampleIdle
    /\ StitchIdle
    /\ GeomIdle
    /\ GraphIdle
    /\ AppIdle

SnapCall ==
    /\ snpc = "input"
    /\ snapOut' = snapAnchors(snapIn, anchors, 1)
    /\ snpc' = "snapped"
    /\ UNCHANGED <<textVars, sampleVars, stitchVars, geomVars, graphVars, appVars,
                   snapIn, anchors>>

SnapNext == SnapCall

SpecSnap == SnapInit /\ [][SnapNext]_vars

\* no anchor lies within the snap distance of any point of the input
NoAnchorNear ==
    \A n \in 1..Len(anchors) : \A pos \in PositionsOf(snapIn) :
        ~WithinSnap(snapIn[pos[1]][pos[2]], anchors[n])

=============================================================================
